---------------------------- MODULE Spec2Model ----------------------------
(***************************************************************************)
(* A model of cobalt's media buffering-and-playback core:                  *)
(*                                                                         *)
(*   - dom::SourceBuffer (src/unnamed/part_001, cobalt/dom/source_buffer.cc)*)
(*     under the specification SpecSB;                                     *)
(*   - media::StarboardPlayer (src/cobalt/media/base/starboard_player.cc)  *)
(*     under the specification SpecSP.                                     *)
(*                                                                         *)
(* Both objects live on one task sequence; one action is one handler run   *)
(* to completion.  The variable trace holds, in call order, what the       *)
(* handler that ran last put out: the exception it raised, the events it   *)
(* enqueued and its calls to the demuxer and the parent media source.      *)
(***************************************************************************)
EXTENDS Integers, Sequences, FiniteSets, Bags, TLC

(***************************************************************************)
(* Bounds of the model.                                                    *)
(***************************************************************************)
\* Presentation times range over -1 .. MaxTime seconds (plus +inf and NaN).
MaxTime == 1
\* The native players SbPlayerCreate hands out over the life of a controller.
MaxPlayers == 2
\* The highest value ticket_ takes.
MaxTicket == 2
\* The callbacks posted to the task runner and not yet run.
MaxQueue == 1
\* The rectangles SetBounds is called with: 1 .. MaxRect.
MaxRect == 2
\* The media times the native player reports to the cache trimming, and the
\* timestamps of the samples written under SpecTR: 0 .. MaxMediaTime seconds.
MaxMediaTime == 2
\* The sample addresses the allocator hands out: 1 .. MaxAddr.
MaxAddr == 2
\* The most samples the decoder buffer cache holds, both tracks together.
MaxCached == 2
\* Sample timestamps range over 0 .. MaxStamp seconds.
MaxStamp == 0

(***************************************************************************)
(* Doubles.  A double is <<"num", n>>, <<"inf", 0>> (+infinity) or         *)
(* <<"nan", 0>>; comparisons follow IEEE-754: every comparison with NaN is *)
(* false.                                                                  *)
(***************************************************************************)
Num(n) == <<"num", n>>
Inf == <<"inf", 0>>
NaN == <<"nan", 0>>
IsNaN(d) == d[1] = "nan"
DLt(a, b) ==
  /\ ~IsNaN(a)
  /\ ~IsNaN(b)
  /\ a[1] = "num"
  /\ (b[1] = "inf" \/ a[2] < b[2])
DLe(a, b) == ~IsNaN(a) /\ ~IsNaN(b) /\ (a = b \/ DLt(a, b))
DGt(a, b) == DLt(b, a)
DGe(a, b) == DLe(b, a)

\* The finite doubles the bindings pass for an IDL `double`, and the values of
\* an IDL `unrestricted double`.
FiniteDoubles == {Num(n) : n \in -1 .. MaxTime}
UnrestrictedDoubles == FiniteDoubles \cup {Inf, NaN}

(***************************************************************************)
(* base::TimeDelta, in microseconds: <<"us", n>> or kInfiniteDuration.     *)
(***************************************************************************)
UsPerSecond == 1000 * 1000
kInfiniteDuration == <<"kInfiniteDuration", 0>>

\* DoubleToTimeDelta of a double that is neither NaN nor -inf (the DCHECKs).
\* The clamp to the largest finite TimeDelta needs more than 9e12 seconds,
\* which no time of the model reaches.
DoubleToTimeDelta(time) ==
  IF time = Inf THEN kInfiniteDuration ELSE <<"us", time[2] * UsPerSecond>>

\* base::TimeDelta::InSecondsF.
InSecondsF(td) ==
  IF td = kInfiniteDuration THEN Inf ELSE Num(td[2] \div UsPerSecond)

(***************************************************************************)
(* SourceBuffer: constants and inputs.                                     *)
(***************************************************************************)
kMaxAppendSize == 128 * 1024

\* The byte counts of the appended inputs: empty, one unit, three units.
AppendSizes == {0, 10000, 300000}

\* The value GetSourceBufferEvictExtraInBytes is configured to.
EvictExtras == {1024}

kSourceBufferAppendModeSegments == "segments"
kSourceBufferAppendModeSequence == "sequence"
AppendModes == {kSourceBufferAppendModeSegments, kSourceBufferAppendModeSequence}

\* Timestamp offsets the caller sets and the demuxer may write back.
TimestampOffsets == {Num(0), Num(1)}

\* The points of the demuxed store: second t stands for the coded frames in
\* [t, t+1).
StorePoints == 0 .. (MaxTime - 1)

\* The positions the media element may be at when an append evicts.
CurrentTimes == 0 .. MaxTime

VARIABLES
  \* ---- SourceBuffer fields
  media_source_,                 \* TRUE: attached (media_source_, chunk_demuxer_, event_queue_ non-null)
  updating_,
  mode_,
  timestamp_offset_,
  append_window_start_,
  append_window_end_,
  pending_remove_start_,
  pending_remove_end_,
  pending_append_data_,          \* size of the input last copied in, -1: no buffer
  pending_append_data_capacity_,
  pending_append_data_size_,
  pending_append_data_offset_,
  append_timer_,                 \* TRUE: OnAppendTimer is scheduled
  remove_timer_,                 \* TRUE: OnRemoveTimer is scheduled
  evict_extra_in_bytes_,
  \* ---- collaborators of the SourceBuffer
  ready_state,                   \* parent MediaSource: "open" or "ended"
  media_error,                   \* media element's error()
  duration,                      \* parent MediaSource's duration
  buffered,                      \* demuxed store of the track
  parsing_media_segment,         \* ChunkDemuxer::IsParsingMediaSegment
  sequence_mode,                 \* ChunkDemuxer's sequence mode of the track
  \* ---- observation
  trace,                         \* what the last handler put out, in order
  events,                        \* events enqueued so far by the operation in flight
  slices,                        \* <<offset, size>> of the units parsed so far by the append in flight
  \* ---- StarboardPlayer fields
  state_,
  player_,                       \* the SbPlayer handle, kSbPlayerInvalid or 1 .. MaxPlayers
  ticket_,
  seek_pending_,
  preroll_timestamp_,
  allow_resume_after_suspend_,
  decoder_buffer_cache_,         \* [buffers: per track, index: per track]
  decoding_buffers_,             \* sample address -> reference count, 0: no entry
  clear_cache_posted_,           \* TRUE: the periodic ClearDecoderBufferCache task is posted
  callback_helper_player_,       \* TRUE: CallbackHelper::player_ is set (not torn down)
  set_bounds_z_index_,           \* base::Optional: <<>> or <<z_index>>
  set_bounds_rect_,              \* base::Optional: <<>> or <<rect>>
  is_creating_player_,
  player_creation_error_message_,
  volume_,
  playback_rate_,
  \* ---- the native player and the task runner
  sb_created,                    \* how many players SbPlayerCreate has handed out
  sb_ticket,                     \* the ticket of the last SbPlayerSeek2 the live player got
  sb_held,                       \* bag of addresses: samples written to a player and not yet given back
  task_queue,                    \* the callbacks posted to task_runner_, oldest first
  \* ---- observation
  sp_calls,                      \* the handler that ran last, then its native and host calls in order
  replayed,                      \* per track, the samples written since Resume while kResuming
  \* ---- StarboardPlayer::lock_ and the threads that take it
  lock_,                         \* the thread that holds lock_, or kLockFree
  position                       \* per thread, where in which operation it is

sbFields ==
  <<media_source_, updating_, mode_, timestamp_offset_, append_window_start_,
    append_window_end_, pending_remove_start_, pending_remove_end_,
    pending_append_data_, pending_append_data_capacity_,
    pending_append_data_size_, pending_append_data_offset_, append_timer_,
    remove_timer_, evict_extra_in_bytes_>>
sbEnv ==
  <<ready_state, media_error, duration, buffered, parsing_media_segment,
    sequence_mode>>
sbObs == <<trace, events, slices>>
sbVars == <<sbFields, sbEnv, sbObs>>

spBounds == <<set_bounds_z_index_, set_bounds_rect_>>
spCreation == <<is_creating_player_, player_creation_error_message_>>
spRates == <<volume_, playback_rate_>>
spFields ==
  <<state_, player_, ticket_, seek_pending_, preroll_timestamp_,
    allow_resume_after_suspend_, decoder_buffer_cache_, decoding_buffers_,
    clear_cache_posted_, callback_helper_player_, spBounds, spCreation,
    spRates>>
spNative == <<sb_created, sb_ticket, sb_held, task_queue>>
spObs == <<sp_calls, replayed>>
spVars == <<spFields, spNative, spObs>>

lkVars == <<lock_, position>>

vars == <<sbVars, spVars, lkVars>>

(***************************************************************************)
(* Trace entries.                                                          *)
(***************************************************************************)
Call(name, args) == <<name, args>>
\* The first entry of a trace: the handler that ran.
Ran(handler) == <<handler, <<>>>>
Handler(t) == t[1][1]
Raise(e) == <<"Raise", <<e>>>>
\* What a call to the demuxer returned and wrote back.
Returned(result, written_back) == <<"Returned", <<result, written_back>>>>
Enqueue(e) == <<"Enqueue", <<e>>>>

kInvalidStateErr == "InvalidStateErr"
kQuotaExceededErr == "QuotaExceededErr"
kSimpleTypeError == "TypeError"

\* The entries of t named name, in order.
RECURSIVE Entries(_, _)
Entries(t, name) ==
  IF t = <<>> THEN <<>>
  ELSE IF Head(t)[1] = name THEN <<Head(t)>> \o Entries(Tail(t), name)
  ELSE Entries(Tail(t), name)

\* The events enqueued in t, in order.
RECURSIVE EnqueuedIn(_)
EnqueuedIn(t) ==
  IF t = <<>> THEN <<>>
  ELSE IF Head(t)[1] = "Enqueue" THEN <<Head(t)[2][1]>> \o EnqueuedIn(Tail(t))
  ELSE EnqueuedIn(Tail(t))

RECURSIVE EnqueueAll(_)
EnqueueAll(es) ==
  IF es = <<>> THEN <<>> ELSE <<Enqueue(Head(es))>> \o EnqueueAll(Tail(es))

\* What a setter's outcome puts out.
OutcomeTrace(outcome) == IF outcome = "ok" THEN <<>> ELSE <<Raise(outcome)>>

(***************************************************************************)
(* SourceBuffer::SourceBuffer: the state after construction.               *)
(***************************************************************************)
InitSB ==
  /\ media_source_ = TRUE
  /\ updating_ = FALSE
  /\ mode_ = kSourceBufferAppendModeSegments
  /\ timestamp_offset_ = Num(0)
  /\ append_window_start_ = Num(0)
  /\ append_window_end_ = Inf
  /\ pending_remove_start_ = Num(-1)
  /\ pending_remove_end_ = Num(-1)
  /\ pending_append_data_ = -1
  /\ pending_append_data_capacity_ = 0
  /\ pending_append_data_size_ = 0
  /\ pending_append_data_offset_ = 0
  /\ append_timer_ = FALSE
  /\ remove_timer_ = FALSE
  /\ evict_extra_in_bytes_ \in EvictExtras
  /\ ready_state = "open"
  /\ media_error = FALSE
  /\ duration = NaN
  /\ buffered = {}
  /\ parsing_media_segment = FALSE
  /\ sequence_mode = FALSE
  /\ trace = <<Ran("SourceBuffer")>>
  /\ events = <<>>
  /\ slices = <<>>

(***************************************************************************)
(* Collaborators of the SourceBuffer.                                      *)
(***************************************************************************)
\* MediaSource::OpenIfInEndedState.
OpenIfInEndedState(rs) == IF rs = "ended" THEN "open" ELSE rs

\* The parent's ready state after MediaSource::EndOfStreamAlgorithm.
ReadyStateAfterEndOfStream == "ended"

\* MediaSource::IsOpen.
IsOpen == ready_state = "open"

\* The store after ChunkDemuxer::Remove(id, start, end): the frames in
\* [start, end) are gone.
StoreAfterRemove(store, start, end) ==
  {t \in store :
     ~(/\ start[2] <= t * UsPerSecond
       /\ (end = kInfiniteDuration \/ t * UsPerSecond < end[2]))}

\* The frames a parse with append window [start, end) may add to the store.
WindowPoints(start, end) ==
  {t \in StorePoints : DLe(start, Num(t)) /\ DLt(Num(t), end)}

\* The frames ChunkDemuxer::EvictCodedFrames may drop: those strictly behind
\* the playback position.
Evictable(store, current_time) == {t \in store : t < current_time}

\* The timestamp offsets the demuxer may write back through its in/out
\* parameter.
TimestampOffsetsWrittenBack(td) ==
  {td} \cup {DoubleToTimeDelta(o) : o \in TimestampOffsets}

(***************************************************************************)
(* Setters.                                                                *)
(***************************************************************************)
\* A faulty guard that lets the setters through while updating_ is set.
DetachedOnly == ~media_source_

\* The guard shared by the setters, Remove and PrepareAppend.
DetachedOrUpdating == ~media_source_ \/ updating_

\* A faulty set_mode that never turns the sequence mode on.
SequenceModeAlwaysOff(mode) == FALSE

\* What set_mode(mode) passes to ChunkDemuxer::SetSequenceMode.
SequenceModeFor(mode) == mode = kSourceBufferAppendModeSequence

set_mode(mode) ==
  /\ IF DetachedOrUpdating
       THEN /\ trace' = <<Ran("set_mode")>> \o <<Raise(kInvalidStateErr)>>
            /\ UNCHANGED <<mode_, ready_state, sequence_mode>>
       ELSE /\ ready_state' = OpenIfInEndedState(ready_state)
            /\ IF parsing_media_segment
                 THEN /\ trace' = <<Ran("set_mode")>> \o <<Raise(kInvalidStateErr)>>
                      /\ UNCHANGED <<mode_, sequence_mode>>
                 ELSE /\ sequence_mode' = SequenceModeFor(mode)
                      /\ mode_' = mode
                      /\ trace' = <<Ran("set_mode")>> \o <<>>
  /\ UNCHANGED <<media_source_, updating_, timestamp_offset_,
                 append_window_start_, append_window_end_,
                 pending_remove_start_, pending_remove_end_,
                 pending_append_data_, pending_append_data_capacity_,
                 pending_append_data_size_, pending_append_data_offset_,
                 append_timer_, remove_timer_, evict_extra_in_bytes_,
                 media_error, duration, buffered, parsing_media_segment,
                 events, slices>>

set_timestamp_offset(offset) ==
  /\ IF DetachedOrUpdating
       THEN /\ trace' = <<Ran("set_timestamp_offset")>> \o <<Raise(kInvalidStateErr)>>
            /\ UNCHANGED <<timestamp_offset_, ready_state>>
       ELSE /\ ready_state' = OpenIfInEndedState(ready_state)
            /\ IF parsing_media_segment
                 THEN /\ trace' = <<Ran("set_timestamp_offset")>> \o <<Raise(kInvalidStateErr)>>
                      /\ UNCHANGED timestamp_offset_
                 ELSE /\ timestamp_offset_' = offset
                      /\ trace' = <<Ran("set_timestamp_offset")>> \o <<>>
  /\ UNCHANGED <<media_source_, updating_, mode_,
                 append_window_start_, append_window_end_,
                 pending_remove_start_, pending_remove_end_,
                 pending_append_data_, pending_append_data_capacity_,
                 pending_append_data_size_, pending_append_data_offset_,
                 append_timer_, remove_timer_, evict_extra_in_bytes_,
                 media_error, duration, buffered, parsing_media_segment,
                 sequence_mode, events, slices>>

\* A faulty set_append_window_start that does not compare start with the
\* window end.
AppendWindowStartIgnoresEnd(attached, updating, start, window_end) ==
  IF ~attached \/ updating THEN kInvalidStateErr
  ELSE IF DLt(start, Num(0)) THEN kSimpleTypeError
  ELSE "ok"

\* What set_append_window_start(start) does, given the attached and updating
\* flags and the current window end: an exception, or "ok" (the value is stored).
AppendWindowStartOutcome(attached, updating, start, window_end) ==
  IF ~attached \/ updating THEN kInvalidStateErr
  ELSE IF DLt(start, Num(0)) \/ DGe(start, window_end) THEN kSimpleTypeError
  ELSE "ok"

\* A faulty set_append_window_end that takes every non-finite end, and not
\* only NaN, for a TypeError.
AppendWindowEndRejectsInfinity(attached, updating, end, window_start) ==
  IF ~attached \/ updating THEN kInvalidStateErr
  ELSE IF end[1] # "num" THEN kSimpleTypeError
  ELSE IF DLe(end, window_start) THEN kSimpleTypeError
  ELSE "ok"

\* What set_append_window_end(end) does, given the current window start.
AppendWindowEndOutcome(attached, updating, end, window_start) ==
  IF ~attached \/ updating THEN kInvalidStateErr
  ELSE IF IsNaN(end) THEN kSimpleTypeError
  ELSE IF DLe(end, window_start) THEN kSimpleTypeError
  ELSE "ok"

set_append_window_start(start) ==
  LET outcome == AppendWindowStartOutcome(media_source_, updating_, start,
                                          append_window_end_)
  IN /\ append_window_start_' =
          IF outcome = "ok" THEN start ELSE append_window_start_
     /\ trace' = <<Ran("set_append_window_start")>> \o OutcomeTrace(outcome)
     /\ UNCHANGED <<media_source_, updating_, mode_, timestamp_offset_,
                    append_window_end_,
                    pending_remove_start_, pending_remove_end_,
                    pending_append_data_, pending_append_data_capacity_,
                    pending_append_data_size_, pending_append_data_offset_,
                    append_timer_, remove_timer_, evict_extra_in_bytes_,
                    sbEnv, events, slices>>

set_append_window_end(end) ==
  LET outcome == AppendWindowEndOutcome(media_source_, updating_, end,
                                        append_window_start_)
  IN /\ append_window_end_' =
          IF outcome = "ok" THEN end ELSE append_window_end_
     /\ trace' = <<Ran("set_append_window_end")>> \o OutcomeTrace(outcome)
     /\ UNCHANGED <<media_source_, updating_, mode_, timestamp_offset_,
                    append_window_start_,
                    pending_remove_start_, pending_remove_end_,
                    pending_append_data_, pending_append_data_capacity_,
                    pending_append_data_size_, pending_append_data_offset_,
                    append_timer_, remove_timer_, evict_extra_in_bytes_,
                    sbEnv, events, slices>>


\* Setting the whole window, the way Abort does it: the start through
\* set_append_window_start, then the end through set_append_window_end; an
\* exception of the first ends the script before the second is called.
SetAppendWindow(start, end) ==
  LET start_outcome ==
        AppendWindowStartOutcome(media_source_, updating_, start,
                                 append_window_end_)
      start_after ==
        IF start_outcome = "ok" THEN start ELSE append_window_start_
      end_outcome ==
        AppendWindowEndOutcome(media_source_, updating_, end, start_after)
  IN /\ append_window_start_' = start_after
     /\ append_window_end_' =
          IF start_outcome = "ok" /\ end_outcome = "ok"
            THEN end
            ELSE append_window_end_
     /\ trace' = <<Ran("SetAppendWindow")>> \o
                 (IF start_outcome = "ok"
                    THEN OutcomeTrace(end_outcome)
                    ELSE OutcomeTrace(start_outcome))
     /\ UNCHANGED <<media_source_, updating_, mode_, timestamp_offset_,
                    pending_remove_start_, pending_remove_end_,
                    pending_append_data_, pending_append_data_capacity_,
                    pending_append_data_size_, pending_append_data_offset_,
                    append_timer_, remove_timer_, evict_extra_in_bytes_,
                    sbEnv, events, slices>>

(***************************************************************************)
(* Append.                                                                 *)
(***************************************************************************)
\* A faulty PrepareAppend that forgets the updating_ check.
PrepareAppendIgnoresUpdating ==
  \/ ~media_source_
  \/ media_error

\* The checks of PrepareAppend that come before it touches anything:
\* detached, updating, media element in error.
PrepareAppendRejects ==
  \/ ~media_source_
  \/ updating_
  \/ media_error

\* pending_append_data_capacity_ after making room for size bytes.
CapacityFor(capacity, size) == IF capacity < size THEN size ELSE capacity

\* The byte budget PrepareAppend asks the demuxer to make room for.
EvictBudget(size) == size + evict_extra_in_bytes_

\* AppendBuffer -> AppendBufferInternal(data, size), with PrepareAppend and
\* EvictCodedFrames.  size is the input's byte count, current_time the media
\* element's position, evicted and evict_ok what the demuxer's eviction drops
\* and returns.  (An empty input copies nothing, whether or not its data
\* pointer is null.)
AppendBuffer(size, current_time, evicted, evict_ok) ==
  LET evict == Call("EvictCodedFrames", <<EvictBudget(size)>>) IN
  IF PrepareAppendRejects
    THEN /\ trace' = <<Ran("AppendBuffer")>> \o <<Raise(kInvalidStateErr)>>
         /\ UNCHANGED <<sbFields, sbEnv, events, slices>>
    ELSE
      /\ ready_state' = OpenIfInEndedState(ready_state)
      /\ evicted \subseteq Evictable(buffered, current_time)
      /\ buffered' = buffered \ evicted
      /\ UNCHANGED <<media_error, duration, parsing_media_segment,
                     sequence_mode>>
      /\ UNCHANGED <<media_source_, mode_, timestamp_offset_,
                     append_window_start_, append_window_end_,
                     pending_remove_start_, pending_remove_end_,
                     remove_timer_, evict_extra_in_bytes_>>
      /\ IF ~evict_ok
           THEN /\ trace' = <<Ran("AppendBuffer")>> \o <<evict, Raise(kQuotaExceededErr)>>
                /\ UNCHANGED <<updating_, pending_append_data_,
                               pending_append_data_capacity_,
                               pending_append_data_size_,
                               pending_append_data_offset_, append_timer_,
                               events, slices>>
           ELSE /\ pending_append_data_capacity_' =
                     CapacityFor(pending_append_data_capacity_, size)
                /\ pending_append_data_' =
                     IF size > 0 THEN size ELSE pending_append_data_
                /\ pending_append_data_size_' = size
                /\ pending_append_data_offset_' = 0
                /\ updating_' = TRUE
                /\ append_timer_' = TRUE
                /\ trace' = <<Ran("AppendBuffer")>> \o <<evict, Enqueue("updatestart")>>
                /\ events' = <<"updatestart">>
                /\ slices' = <<>>

\* A faulty unit size: everything that is left, without the std::min.
NextAppendSizeUnbounded(size, offset) == size - offset

\* The byte count of the next parse unit.
NextAppendSize(size, offset) ==
  IF size - offset < kMaxAppendSize THEN size - offset ELSE kMaxAppendSize

\* What AppendError puts out; offset_after_parse is timestamp_offset_ as
\* OnAppendTimer left it.
AppendErrorTrace(offset_after_parse) ==
  <<Call("ResetParserState",
         <<DoubleToTimeDelta(append_window_start_),
           DoubleToTimeDelta(append_window_end_),
           DoubleToTimeDelta(offset_after_parse)>>),
    Enqueue("error"),
    Enqueue("updateend"),
    Call("EndOfStreamAlgorithm", <<"kMediaSourceEndOfStreamErrorDecode">>)>>

\* Whether OnAppendTimer schedules another unit after a successful parse that
\* leaves the offset at offset_after.
MoreToAppend(size, offset_after) == offset_after < size

\* A faulty end of append that enqueues updateend alone.
AppendDoneWithoutUpdate == <<"updateend">>

\* The events OnAppendTimer enqueues when the last unit has been parsed.
AppendDoneEvents == <<"update", "updateend">>

\* A faulty AppendError that forgets updating_.
UpdatingLeftSetByAppendError == TRUE

\* updating_ after a failed parse (AppendError).
UpdatingAfterAppendError == FALSE

\* OnAppendTimer: one parse unit.  success, parsed_offset, added and
\* in_segment are what ChunkDemuxer::AppendData returns, writes back and does
\* to its store and parser; reset_offset is what ResetParserState writes back.
OnAppendTimer(success, parsed_offset, added, in_segment, reset_offset) ==
  LET append_size == NextAppendSize(pending_append_data_size_,
                                    pending_append_data_offset_)
      offset_in == DoubleToTimeDelta(timestamp_offset_)
      offset_after_parse ==
        IF parsed_offset # offset_in THEN InSecondsF(parsed_offset)
        ELSE timestamp_offset_
      parse == Call("AppendData",
                    <<pending_append_data_offset_, append_size,
                      DoubleToTimeDelta(append_window_start_),
                      DoubleToTimeDelta(append_window_end_), offset_in>>)
      returned == Returned(success, parsed_offset)
      offset_after == pending_append_data_offset_ + append_size
  IN
  /\ append_timer_
  /\ parsed_offset \in TimestampOffsetsWrittenBack(offset_in)
  /\ added \subseteq WindowPoints(append_window_start_, append_window_end_)
  /\ buffered' = buffered \cup added
  /\ UNCHANGED <<media_source_, mode_, append_window_start_,
                 append_window_end_, pending_remove_start_,
                 pending_remove_end_, pending_append_data_,
                 pending_append_data_capacity_, remove_timer_,
                 evict_extra_in_bytes_, media_error, duration, sequence_mode>>
  /\ IF ~success
       THEN /\ reset_offset \in
                 TimestampOffsetsWrittenBack(DoubleToTimeDelta(offset_after_parse))
            /\ in_segment = FALSE
            /\ pending_append_data_size_' = 0
            /\ pending_append_data_offset_' = 0
            /\ timestamp_offset_' = InSecondsF(reset_offset)
            /\ parsing_media_segment' = FALSE
            /\ updating_' = UpdatingAfterAppendError
            /\ append_timer_' = FALSE
            /\ ready_state' = ReadyStateAfterEndOfStream
            /\ trace' = <<Ran("OnAppendTimer"), parse, returned>> \o
                          AppendErrorTrace(offset_after_parse)
            /\ events' = <<>>
            /\ slices' = <<>>
       ELSE /\ reset_offset = parsed_offset
            /\ timestamp_offset_' = offset_after_parse
            /\ parsing_media_segment' = in_segment
            /\ UNCHANGED ready_state
            /\ IF MoreToAppend(pending_append_data_size_, offset_after)
                 THEN /\ pending_append_data_offset_' = offset_after
                      /\ append_timer_' = TRUE
                      /\ trace' = <<Ran("OnAppendTimer"), parse, returned>>
                      /\ slices' = Append(slices,
                                          <<pending_append_data_offset_,
                                            append_size>>)
                      /\ UNCHANGED <<updating_, pending_append_data_size_,
                                     events>>
                 ELSE /\ updating_' = FALSE
                      /\ append_timer_' = FALSE
                      /\ pending_append_data_size_' = 0
                      /\ pending_append_data_offset_' = 0
                      /\ trace' = <<Ran("OnAppendTimer"), parse, returned>> \o
                                    EnqueueAll(AppendDoneEvents)
                      /\ events' = <<>>
                      /\ slices' = <<>>

(***************************************************************************)
(* Remove.                                                                 *)
(***************************************************************************)
\* Faulty parameter checks of Remove that do not look at the parent's
\* duration.
RemoveParametersIgnoreDuration(start, end) ==
  \/ DLt(start, Num(0))
  \/ DLe(end, start)
  \/ IsNaN(end)

\* The parameter checks of Remove, after the detached/updating checks.
RemoveParametersInvalid(start, end) ==
  \/ DLt(start, Num(0))
  \/ IsNaN(duration)
  \/ DGt(start, duration)
  \/ DLe(end, start)
  \/ IsNaN(end)

Remove(start, end) ==
  IF DetachedOrUpdating
    THEN /\ trace' = <<Ran("Remove")>> \o <<Raise(kInvalidStateErr)>>
         /\ UNCHANGED <<sbFields, sbEnv, events, slices>>
    ELSE IF RemoveParametersInvalid(start, end)
    THEN /\ trace' = <<Ran("Remove")>> \o <<Raise(kSimpleTypeError)>>
         /\ UNCHANGED <<sbFields, sbEnv, events, slices>>
    ELSE /\ ready_state' = OpenIfInEndedState(ready_state)
         /\ updating_' = TRUE
         /\ pending_remove_start_' = start
         /\ pending_remove_end_' = end
         /\ remove_timer_' = TRUE
         /\ trace' = <<Ran("Remove")>> \o <<Enqueue("updatestart")>>
         /\ events' = <<"updatestart">>
         /\ UNCHANGED <<media_source_, mode_, timestamp_offset_,
                        append_window_start_, append_window_end_,
                        pending_append_data_, pending_append_data_capacity_,
                        pending_append_data_size_, pending_append_data_offset_,
                        append_timer_, evict_extra_in_bytes_, media_error,
                        duration, buffered, parsing_media_segment,
                        sequence_mode, slices>>

\* A faulty OnRemoveTimer that removes from start to the end of the store.
RemovedRangeToTheEnd(start, end) ==
  <<DoubleToTimeDelta(start), kInfiniteDuration>>

\* The range OnRemoveTimer hands to ChunkDemuxer::Remove for the pending
\* range [start, end).
RemovedRange(start, end) == <<DoubleToTimeDelta(start), DoubleToTimeDelta(end)>>

OnRemoveTimer ==
  /\ remove_timer_
  /\ buffered' =
       StoreAfterRemove(
         buffered,
         RemovedRange(pending_remove_start_, pending_remove_end_)[1],
         RemovedRange(pending_remove_start_, pending_remove_end_)[2])
  /\ updating_' = FALSE
  /\ pending_remove_start_' = Num(-1)
  /\ pending_remove_end_' = Num(-1)
  /\ remove_timer_' = FALSE
  /\ trace' = <<Ran("OnRemoveTimer")>> \o
                <<Call("Remove",
                       RemovedRange(pending_remove_start_, pending_remove_end_)),
                  Enqueue("update"), Enqueue("updateend")>>
  /\ events' = <<>>
  /\ UNCHANGED <<media_source_, mode_, timestamp_offset_,
                 append_window_start_, append_window_end_,
                 pending_append_data_, pending_append_data_capacity_,
                 pending_append_data_size_, pending_append_data_offset_,
                 append_timer_, evict_extra_in_bytes_, ready_state,
                 media_error, duration, parsing_media_segment, sequence_mode,
                 slices>>


(***************************************************************************)
(* Abort and detach.                                                       *)
(***************************************************************************)
\* A faulty AbortIfUpdating that stops the timer and forgets updating_.
UpdatingLeftSetByAbort == TRUE

\* AbortIfUpdating: the value it leaves in updating_ when it was set.
UpdatingAfterAbort == FALSE

\* A faulty AbortIfUpdating that clears updating_ and leaves the timer running.
AppendTimerLeftByAbort == TRUE

\* AbortIfUpdating: whether the append timer is still scheduled afterwards.
AppendTimerAfterAbort == FALSE

\* A faulty AbortIfUpdating that enqueues updateend ahead of abort.
AbortEventsUpdateEndFirst ==
  IF updating_ THEN <<"updateend", "abort">> ELSE <<>>

\* AbortIfUpdating: the events it enqueues.
AbortIfUpdatingEvents == IF updating_ THEN <<"abort", "updateend">> ELSE <<>>

\* A faulty CancelRemove that stops the timer and forgets updating_.
UpdatingLeftSetByCancelRemove == TRUE

\* CancelRemove: the value it leaves in updating_.
UpdatingAfterCancelRemove == FALSE

\* A faulty Abort that does not look for a pending remove.
AbortIgnoresPendingRemove == ~media_source_ \/ ~IsOpen

\* Why Abort raises InvalidStateErr.
AbortRejects ==
  \/ ~media_source_
  \/ ~IsOpen
  \/ pending_remove_start_ # Num(-1)

\* Abort; reset_offset is what ResetParserState writes back.
Abort(reset_offset) ==
  IF AbortRejects
    THEN /\ trace' = <<Ran("Abort")>> \o <<Raise(kInvalidStateErr)>>
         /\ UNCHANGED <<sbFields, sbEnv, events, slices>>
    ELSE
      LET updating_after == IF updating_ THEN UpdatingAfterAbort ELSE updating_
          start_outcome ==
            AppendWindowStartOutcome(media_source_, updating_after, Num(0),
                                     append_window_end_)
          start_after ==
            IF start_outcome = "ok" THEN Num(0) ELSE append_window_start_
          end_outcome ==
            AppendWindowEndOutcome(media_source_, updating_after, Inf,
                                   start_after)
      IN
      /\ reset_offset \in
           TimestampOffsetsWrittenBack(DoubleToTimeDelta(timestamp_offset_))
      /\ updating_' = updating_after
      /\ append_timer_' =
           IF updating_ THEN AppendTimerAfterAbort ELSE append_timer_
      /\ pending_append_data_size_' =
           IF updating_ THEN 0 ELSE pending_append_data_size_
      /\ pending_append_data_offset_' =
           IF updating_ THEN 0 ELSE pending_append_data_offset_
      /\ timestamp_offset_' = InSecondsF(reset_offset)
      /\ parsing_media_segment' = FALSE
      /\ append_window_start_' = start_after
      /\ append_window_end_' =
           IF end_outcome = "ok" THEN Inf ELSE append_window_end_
      /\ trace' = <<Ran("Abort")>> \o EnqueueAll(AbortIfUpdatingEvents) \o
                  <<Call("ResetParserState",
                         <<DoubleToTimeDelta(append_window_start_),
                           DoubleToTimeDelta(append_window_end_),
                           DoubleToTimeDelta(timestamp_offset_)>>)>> \o
                  OutcomeTrace(start_outcome) \o OutcomeTrace(end_outcome)
      /\ events' = <<>>
      /\ slices' = <<>>
      /\ UNCHANGED <<media_source_, mode_, pending_remove_start_,
                     pending_remove_end_, pending_append_data_,
                     pending_append_data_capacity_, remove_timer_,
                     evict_extra_in_bytes_, ready_state, media_error,
                     duration, buffered, sequence_mode>>

\* OnRemovedFromMediaSource: the track buffer is detached from its parent.
OnRemovedFromMediaSource ==
  IF ~media_source_
    THEN /\ trace' = <<Ran("OnRemovedFromMediaSource")>> \o <<>>
         /\ UNCHANGED <<sbFields, sbEnv, events, slices>>
    ELSE
      LET remove_pending == pending_remove_start_ # Num(-1)
          aborted == IF remove_pending THEN <<>> ELSE AbortIfUpdatingEvents
      IN
      /\ IF remove_pending
           THEN /\ remove_timer_' = FALSE
                /\ pending_remove_start_' = Num(-1)
                /\ pending_remove_end_' = Num(-1)
                /\ updating_' = UpdatingAfterCancelRemove
                /\ UNCHANGED <<append_timer_, pending_append_data_size_,
                               pending_append_data_offset_>>
           ELSE /\ updating_' =
                     IF updating_ THEN UpdatingAfterAbort ELSE updating_
                /\ append_timer_' =
                     IF updating_ THEN AppendTimerAfterAbort ELSE append_timer_
                /\ pending_append_data_size_' =
                     IF updating_ THEN 0 ELSE pending_append_data_size_
                /\ pending_append_data_offset_' =
                     IF updating_ THEN 0 ELSE pending_append_data_offset_
                /\ UNCHANGED <<remove_timer_, pending_remove_start_,
                               pending_remove_end_>>
      /\ media_source_' = FALSE
      /\ pending_append_data_' = -1
      /\ pending_append_data_capacity_' = 0
      /\ buffered' = {}
      /\ parsing_media_segment' = FALSE
      /\ trace' = <<Ran("OnRemovedFromMediaSource")>> \o EnqueueAll(aborted) \o <<Call("RemoveId", <<>>)>>
      /\ events' = <<>>
      /\ slices' = <<>>
      /\ UNCHANGED <<mode_, timestamp_offset_, append_window_start_,
                     append_window_end_, evict_extra_in_bytes_, ready_state,
                     media_error, duration, sequence_mode>>

(***************************************************************************)
(* What the SourceBuffer's surroundings do on their own.                   *)
(***************************************************************************)
\* The duration the page sets on the parent source.
Durations == {Num(MaxTime - 1)}

\* MediaSource.endOfStream(): refused while a source buffer is updating.
MediaSourceEndOfStream ==
  /\ media_source_
  /\ ready_state = "open"
  /\ ~updating_
  /\ ready_state' = ReadyStateAfterEndOfStream
  /\ trace' = <<Ran("MediaSourceEndOfStream")>> \o <<>>
  /\ UNCHANGED <<sbFields, media_error, duration, buffered,
                 parsing_media_segment, sequence_mode, events, slices>>

\* MediaSource.duration = d: refused while a source buffer is updating.
MediaSourceSetDuration(d) ==
  /\ media_source_
  /\ ~updating_
  /\ duration # d
  /\ duration' = d
  /\ trace' = <<Ran("MediaSourceSetDuration")>> \o <<>>
  /\ UNCHANGED <<sbFields, ready_state, media_error, buffered,
                 parsing_media_segment, sequence_mode, events, slices>>

\* The media element enters an error state.
MediaElementError ==
  /\ media_source_
  /\ ~media_error
  /\ media_error' = TRUE
  /\ trace' = <<Ran("MediaElementError")>> \o <<>>
  /\ UNCHANGED <<sbFields, ready_state, duration, buffered,
                 parsing_media_segment, sequence_mode, events, slices>>

\* The values ChunkDemuxer may write back as timestamp offset.
WrittenBack == {DoubleToTimeDelta(o) : o \in TimestampOffsets}

\* The inputs of a call: one representative where the call is refused for the
\* state alone, before any parameter is looked at.
AppendBufferSizes == IF PrepareAppendRejects THEN {0} ELSE AppendSizes
AppendBufferTimes == IF PrepareAppendRejects THEN {0} ELSE CurrentTimes
RemoveStarts == IF DetachedOrUpdating THEN {Num(0)} ELSE FiniteDoubles
RemoveEnds == IF DetachedOrUpdating THEN {Num(1)} ELSE UnrestrictedDoubles
WindowStarts == IF DetachedOrUpdating THEN {Num(0)} ELSE FiniteDoubles
WindowEnds == IF DetachedOrUpdating THEN {Num(1)} ELSE UnrestrictedDoubles

NextSB ==
  \/ \E mode \in AppendModes : set_mode(mode) /\ UNCHANGED <<spVars, lkVars>>
  \/ \E offset \in TimestampOffsets : set_timestamp_offset(offset) /\ UNCHANGED <<spVars, lkVars>>
  \/ \E start \in WindowStarts : set_append_window_start(start) /\ UNCHANGED <<spVars, lkVars>>
  \/ \E end \in WindowEnds : set_append_window_end(end) /\ UNCHANGED <<spVars, lkVars>>
  \/ \E start \in WindowStarts, end \in WindowEnds :
       SetAppendWindow(start, end) /\ UNCHANGED <<spVars, lkVars>>
  \/ \E size \in AppendBufferSizes, current_time \in AppendBufferTimes,
        evict_ok \in BOOLEAN :
       \E evicted \in SUBSET Evictable(buffered, current_time) :
         AppendBuffer(size, current_time, evicted, evict_ok) /\ UNCHANGED <<spVars, lkVars>>
  \/ \E success \in BOOLEAN, parsed_offset \in WrittenBack :
       \E added \in SUBSET WindowPoints(append_window_start_, append_window_end_),
          in_segment \in IF success THEN BOOLEAN ELSE {FALSE},
          reset_offset \in IF success THEN {parsed_offset} ELSE WrittenBack :
         OnAppendTimer(success, parsed_offset, added, in_segment, reset_offset) /\ UNCHANGED <<spVars, lkVars>>
  \/ \E start \in RemoveStarts, end \in RemoveEnds : Remove(start, end) /\ UNCHANGED <<spVars, lkVars>>
  \/ OnRemoveTimer /\ UNCHANGED <<spVars, lkVars>>
  \/ \E reset_offset \in WrittenBack : Abort(reset_offset) /\ UNCHANGED <<spVars, lkVars>>
  \/ OnRemovedFromMediaSource /\ UNCHANGED <<spVars, lkVars>>
  \/ MediaSourceEndOfStream /\ UNCHANGED <<spVars, lkVars>>
  \/ \E d \in Durations : MediaSourceSetDuration(d) /\ UNCHANGED <<spVars, lkVars>>
  \/ MediaElementError /\ UNCHANGED <<spVars, lkVars>>



(***************************************************************************)
(* Properties of the SourceBuffer, checked under SpecSB.  A step is told   *)
(* by the handler that heads trace'.                                       *)
(***************************************************************************)
\* Whether t holds the raising of exception e.
Raised(t, e) == \E i \in 1 .. Len(t) : t[i][1] = "Raise" /\ t[i][2] = <<e>>

\* Whether t holds a call of name.
Called(t, name) == Entries(t, name) # <<>>

\* The arguments of the AppendData call of an OnAppendTimer trace:
\* <<offset, size, window start, window end, timestamp offset>>.
UnitOf(t) == t[2][2]

\* What AppendData returned in an OnAppendTimer trace, and wrote back.
SucceededIn(t) == t[3][2][1]
WrittenBackIn(t) == t[3][2][2]

\* C1: in every reachable state at most one of the pending append (its timer
\* is scheduled) and the pending remove (its range is set, its timer is
\* scheduled) is active, and updating_ is true iff one of them is.
C1_OnePendingOperation ==
  /\ ~(append_timer_ /\ pending_remove_start_ # Num(-1))
  /\ remove_timer_ <=> pending_remove_start_ # Num(-1)
  /\ updating_ <=> (append_timer_ \/ pending_remove_start_ # Num(-1))

\* A remove is pending on a buffer that has taken an append before.
C1_Witness ==
  /\ updating_
  /\ remove_timer_
  /\ ~append_timer_
  /\ pending_append_data_ # -1

\* C6: an AppendBuffer that raises QuotaExceededErr changes no field of the
\* buffer, leaves the demuxed store and the parent's ready state as they
\* were, and enqueues nothing.
C6_QuotaExceededChangesNothing ==
  [][(Handler(trace') = "AppendBuffer" /\ Raised(trace', kQuotaExceededErr))
       => /\ UNCHANGED <<sbFields, sbEnv>>
          /\ EnqueuedIn(trace') = <<>>]_vars

\* C7: AppendBuffer on a detached buffer, while updating_, or with the media
\* element in error raises InvalidStateErr and does nothing else: no field
\* changes (nothing copied, no timer started, the operation in flight as it
\* was), nothing is enqueued, no collaborator is called.
C7_AppendRejectedInvalidState ==
  [][(Handler(trace') = "AppendBuffer" /\
      (~media_source_ \/ updating_ \/ media_error))
       => /\ trace' = <<Ran("AppendBuffer"), Raise(kInvalidStateErr)>>
          /\ UNCHANGED <<sbFields, sbEnv, events, slices>>]_vars

\* An append was refused while another append was half way through.
C7_Witness ==
  /\ Handler(trace) = "AppendBuffer"
  /\ Raised(trace, kInvalidStateErr)
  /\ updating_
  /\ append_timer_
  /\ pending_append_data_offset_ > 0

\* The steps of an append: its acceptance, a unit that leaves more to parse,
\* the unit that parses the last bytes, a unit whose parse fails.
AppendAccepted ==
  /\ Handler(trace') = "AppendBuffer"
  /\ ~Called(trace', "Raise")
UnitRan == append_timer_ /\ Handler(trace') = "OnAppendTimer"
UnitFailed == UnitRan /\ ~SucceededIn(trace')
LastUnitSucceeded == UnitRan /\ SucceededIn(trace') /\ ~append_timer_'
InnerUnitSucceeded == UnitRan /\ SucceededIn(trace') /\ append_timer_'

\* C8: an accepted append enqueues updatestart and sets updating_; while its
\* units succeed and it is not aborted, no step enqueues anything and
\* updating_ stays set; the last unit enqueues update, updateend, so that the
\* append's events are exactly updatestart, update, updateend, and it is the
\* last unit that clears updating_.
C8_AppendEvents ==
  [][/\ AppendAccepted
          => /\ EnqueuedIn(trace') = <<"updatestart">>
             /\ events' = <<"updatestart">>
             /\ updating_'
             /\ append_timer_'
     /\ (append_timer_ /\ append_timer_')
          => /\ EnqueuedIn(trace') = <<>>
             /\ events' = events
             /\ updating_
             /\ updating_'
     /\ LastUnitSucceeded
          => /\ events \o EnqueuedIn(trace') =
                  <<"updatestart", "update", "updateend">>
             /\ updating_
             /\ ~updating_']_vars

\* The third unit of an append has enqueued update, updateend.
C8_Witness ==
  /\ Handler(trace) = "OnAppendTimer"
  /\ SucceededIn(trace)
  /\ EnqueuedIn(trace) = <<"update", "updateend">>
  /\ UnitOf(trace)[1] > kMaxAppendSize
  /\ ~updating_

\* Where the units parsed so far end.
SlicesEnd(s) == IF s = <<>> THEN 0 ELSE s[Len(s)][1] + s[Len(s)][2]

\* max(1, ceil(n / kMaxAppendSize)).
UnitsFor(n) ==
  IF n = 0 THEN 1 ELSE (n + kMaxAppendSize - 1) \div kMaxAppendSize

\* C9: an accepted append of n bytes (the eviction budget is n plus the
\* margin) is parsed one unit per OnAppendTimer run; a unit takes at most
\* kMaxAppendSize bytes, starts where the unit before it ended (the first at
\* 0) and stays within the n bytes; a unit that leaves bytes is followed by
\* another; the last unit ends at n, and it is unit number
\* max(1, ceil(n / kMaxAppendSize)).
C9_AppendUnits ==
  [][/\ AppendAccepted
          => /\ trace'[2] = Call("EvictCodedFrames",
                                 <<pending_append_data_size_' +
                                   evict_extra_in_bytes_>>)
             /\ pending_append_data_size_' \in AppendSizes
             /\ pending_append_data_offset_' = 0
             /\ slices' = <<>>
     /\ UnitRan
          => /\ UnitOf(trace')[2] <= kMaxAppendSize
             /\ UnitOf(trace')[2] >= 0
             /\ UnitOf(trace')[1] = SlicesEnd(slices)
             /\ UnitOf(trace')[1] + UnitOf(trace')[2] <= pending_append_data_size_
     /\ InnerUnitSucceeded
          => /\ UnitOf(trace')[1] + UnitOf(trace')[2] < pending_append_data_size_
             /\ UnitOf(trace')[2] > 0
             /\ slices' = Append(slices, <<UnitOf(trace')[1], UnitOf(trace')[2]>>)
             /\ pending_append_data_size_' = pending_append_data_size_
     /\ LastUnitSucceeded
          => /\ UnitOf(trace')[1] + UnitOf(trace')[2] = pending_append_data_size_
             /\ Len(slices) + 1 = UnitsFor(pending_append_data_size_)]_vars

\* The third and last unit of a 300,000-byte append has been parsed.
C9_Witness ==
  /\ Handler(trace) = "OnAppendTimer"
  /\ SucceededIn(trace)
  /\ ~append_timer_
  /\ UnitOf(trace)[1] = 2 * kMaxAppendSize
  /\ UnitOf(trace)[2] = 300000 - 2 * kMaxAppendSize

\* timestamp_offset_ as OnAppendTimer leaves it after the parse that wrote
\* written_back.
OffsetAfterParse(written_back) ==
  IF written_back # DoubleToTimeDelta(timestamp_offset_)
    THEN InSecondsF(written_back)
    ELSE timestamp_offset_

\* C10: a unit whose parse fails ends the append: no timer is left scheduled,
\* size and offset are cleared, updating_ is cleared, and after the parse the
\* handler calls ResetParserState with the append window and the timestamp
\* offset of that moment, enqueues error then updateend (no update), and
\* last calls the parent's EndOfStreamAlgorithm with the decode error.
C10_ParseFailureAbortsAppend ==
  [][UnitFailed
       => /\ ~append_timer_'
          /\ ~remove_timer_'
          /\ pending_append_data_size_' = 0
          /\ pending_append_data_offset_' = 0
          /\ ~updating_'
          /\ SubSeq(trace', 4, Len(trace')) =
               <<Call("ResetParserState",
                      <<DoubleToTimeDelta(append_window_start_),
                        DoubleToTimeDelta(append_window_end_),
                        DoubleToTimeDelta(
                          OffsetAfterParse(WrittenBackIn(trace')))>>),
                 Enqueue("error"),
                 Enqueue("updateend"),
                 Call("EndOfStreamAlgorithm",
                      <<"kMediaSourceEndOfStreamErrorDecode">>)>>
          /\ UNCHANGED <<append_window_start_, append_window_end_>>]_vars

\* The second unit of an append failed to parse.
C10_Witness ==
  /\ Handler(trace) = "OnAppendTimer"
  /\ ~SucceededIn(trace)
  /\ UnitOf(trace)[1] = kMaxAppendSize
  /\ EnqueuedIn(trace) = <<"error", "updateend">>
  /\ ~updating_

\* The steps of Abort: one that returns normally, one that raises.
AbortRan == Handler(trace') = "Abort"
AbortSucceeded == AbortRan /\ ~Called(trace', "Raise")
AbortFailed == AbortRan /\ Called(trace', "Raise")

Detached == Handler(trace') = "OnRemovedFromMediaSource" /\ media_source_

\* C12: when Abort returns normally or the buffer is detached, no unit of
\* the operation that was in flight is left scheduled (neither timer runs,
\* updating_ is false); a timer is only started by an accepted AppendBuffer
\* or Remove; and only a scheduled unit calls AppendData or Remove on the
\* demuxer or enqueues update.  So no parse, removal or update event of the
\* cancelled operation follows.
C12_CancelledUnitsNeverRun ==
  [][/\ (AbortSucceeded \/ Detached)
          => /\ ~append_timer_'
             /\ ~remove_timer_'
             /\ ~updating_'
     /\ (~append_timer_ /\ append_timer_') => AppendAccepted
     /\ (~remove_timer_ /\ remove_timer_')
          => Handler(trace') = "Remove" /\ ~Called(trace', "Raise")
     /\ Called(Tail(trace'), "AppendData")
          => append_timer_ /\ Handler(trace') = "OnAppendTimer"
     /\ Called(Tail(trace'), "Remove")
          => remove_timer_ /\ Handler(trace') = "OnRemoveTimer"
     /\ (\E i \in 1 .. Len(trace') : trace'[i] = Enqueue("update"))
          => append_timer_ \/ remove_timer_]_vars

\* The buffer was detached while an append was in flight.
C12_Witness ==
  /\ Handler(trace) = "OnRemovedFromMediaSource"
  /\ EnqueuedIn(trace) = <<"abort", "updateend">>
  /\ ~media_source_
  /\ ~append_timer_
  /\ ~updating_

\* C13: Abort raises InvalidStateErr when the parent source is not open or
\* a remove is pending.  An Abort that raises does nothing else: no field of
\* the buffer changes (the pending range, updating_, the append window, the
\* timers), the parent and the demuxer are as they were (no ResetParserState,
\* parsing_media_segment kept), nothing is enqueued.  The removal unit stays
\* scheduled: a scheduled remove timer is only ended by OnRemoveTimer running
\* or by the buffer being detached.
C13_AbortRejected ==
  [][/\ (AbortRan /\ (~IsOpen \/ pending_remove_start_ # Num(-1)))
          => Raised(trace', kInvalidStateErr)
     /\ AbortFailed
          => /\ trace' = <<Ran("Abort"), Raise(kInvalidStateErr)>>
             /\ UNCHANGED <<sbFields, sbEnv, events, slices>>
     /\ (remove_timer_ /\ ~remove_timer_')
          => \/ Handler(trace') = "OnRemoveTimer"
             \/ Detached]_vars

\* Abort was refused while a remove was pending, and the remove is still
\* pending.
C13_Witness ==
  /\ Handler(trace) = "Abort"
  /\ Raised(trace, kInvalidStateErr)
  /\ remove_timer_
  /\ pending_remove_start_ # Num(-1)
  /\ updating_
  /\ IsOpen

\* The arguments of the ResetParserState calls of trace t, in order.
ResetParserStateArgs(t) ==
  [i \in 1 .. Len(Entries(t, "ResetParserState")) |->
     Entries(t, "ResetParserState")[i][2]]

\* C14: an Abort that is not refused raises nothing, calls ResetParserState
\* once, with the append window and timestamp offset it found, which leaves
\* the parser outside any media segment, and leaves the append window at
\* [0, +infinity), whatever the window was and whether or not an append was
\* in flight.
C14_AbortResetsParserAndWindow ==
  [][(AbortRan /\ ~AbortRejects)
       => /\ AbortSucceeded
          /\ ResetParserStateArgs(trace') =
               << <<DoubleToTimeDelta(append_window_start_),
                    DoubleToTimeDelta(append_window_end_),
                    DoubleToTimeDelta(timestamp_offset_)>> >>
          /\ ~parsing_media_segment'
          /\ append_window_start_' = Num(0)
          /\ append_window_end_' = Inf]_vars

\* Abort has cut short an append made under a window that started at 1 and
\* has put the window back to [0, +infinity).
C14_Witness ==
  /\ Handler(trace) = "Abort"
  /\ EnqueuedIn(trace) = <<"abort", "updateend">>
  /\ ResetParserStateArgs(trace) # <<>>
  /\ ResetParserStateArgs(trace)[1][1] = DoubleToTimeDelta(Num(1))
  /\ append_window_start_ = Num(0)
  /\ append_window_end_ = Inf

\* A step of Remove that raises.
RemoveRejected == Handler(trace') = "Remove" /\ Called(trace', "Raise")

\* C15: Remove(start, end) raises InvalidStateErr while updating_ is true;
\* on an attached buffer that is not updating it raises TypeError if start
\* is negative, end <= start, end is NaN, or the parent's duration is NaN or
\* less than start.  A Remove that raises does nothing else: the pending
\* range is not set, updating_ and every other field are unchanged, the
\* parent and the store are as they were, nothing is enqueued, no timer is
\* started.
C15_RemoveRejected ==
  [][/\ \A start \in FiniteDoubles, end \in UnrestrictedDoubles :
          (Handler(trace') = "Remove" /\ Remove(start, end))
            => /\ updating_
                    => trace' = <<Ran("Remove"), Raise(kInvalidStateErr)>>
               /\ (/\ media_source_
                   /\ ~updating_
                   /\ \/ DLt(start, Num(0))
                      \/ DLe(end, start)
                      \/ IsNaN(end)
                      \/ IsNaN(duration)
                      \/ DGt(start, duration))
                    => trace' = <<Ran("Remove"), Raise(kSimpleTypeError)>>
     /\ RemoveRejected
          => /\ UNCHANGED <<sbFields, sbEnv, events, slices>>
             /\ EnqueuedIn(trace') = <<>>
             /\ pending_remove_start_' = pending_remove_start_
             /\ pending_remove_end_' = pending_remove_end_
             /\ updating_' = updating_
             /\ remove_timer_' = remove_timer_]_vars

\* Remove was refused for its parameters, by a buffer that holds frames and
\* whose parent has a duration.
C15_Witness ==
  /\ Handler(trace) = "Remove"
  /\ Raised(trace, kSimpleTypeError)
  /\ ~IsNaN(duration)
  /\ buffered # {}
  /\ ~updating_
  /\ ~remove_timer_
  /\ pending_remove_start_ = Num(-1)

\* A step of Remove that does not raise.
AcceptedRemove == Handler(trace') = "Remove" /\ ~Called(trace', "Raise")

\* The frames of store outside [start, end), start and end being doubles.
OutsideRange(store, start, end) ==
  {t \in store : ~(DLe(start, Num(t)) /\ DLt(Num(t), end))}

\* C16: an accepted Remove(start, end) sets updating_, enqueues updatestart
\* and nothing else, records [start, end) as the pending range and starts
\* the remove timer, the one timer running; the range stays as recorded
\* while the timer is scheduled; OnRemoveTimer, which only runs scheduled,
\* calls the demuxer's Remove once, with start and end converted, so that the
\* store loses the frames of [start, end) and no other, then clears
\* updating_ and the pending range and enqueues update then updateend.
C16_RemoveRuns ==
  [][/\ \A start \in FiniteDoubles, end \in UnrestrictedDoubles :
          (AcceptedRemove /\ Remove(start, end))
            => /\ updating_'
               /\ EnqueuedIn(trace') = <<"updatestart">>
               /\ pending_remove_start_' = start
               /\ pending_remove_end_' = end
               /\ ~remove_timer_
               /\ remove_timer_'
               /\ ~append_timer_'
               /\ buffered' = buffered
     /\ (remove_timer_ /\ remove_timer_')
          => /\ UNCHANGED <<pending_remove_start_, pending_remove_end_>>
             /\ EnqueuedIn(trace') = <<>>
     /\ Handler(trace') = "OnRemoveTimer"
          => /\ remove_timer_
             /\ Tail(trace') =
                  <<Call("Remove", <<DoubleToTimeDelta(pending_remove_start_),
                                     DoubleToTimeDelta(pending_remove_end_)>>),
                    Enqueue("update"),
                    Enqueue("updateend")>>
             /\ buffered' =
                  OutsideRange(buffered, pending_remove_start_,
                               pending_remove_end_)
             /\ ~updating_'
             /\ ~remove_timer_'
             /\ pending_remove_start_' = Num(-1)
             /\ pending_remove_end_' = Num(-1)]_vars

\* The removal unit of Remove(0, 1) has run, on a buffer that has taken an
\* append, and the store is empty.
C16_Witness ==
  /\ Handler(trace) = "OnRemoveTimer"
  /\ Tail(trace) =
       <<Call("Remove", <<DoubleToTimeDelta(Num(0)), DoubleToTimeDelta(Num(1))>>),
         Enqueue("update"),
         Enqueue("updateend")>>
  /\ buffered = {}
  /\ pending_append_data_ # -1
  /\ ~updating_
  /\ pending_remove_start_ = Num(-1)

\* Whether a window of [start, end) is one the setters refuse with TypeError
\* when the window end is window_end.
WindowIsInvalid(start, end, window_end) ==
  \/ DLt(start, Num(0))
  \/ DGe(start, window_end)
  \/ IsNaN(end)
  \/ DLe(end, start)

RejectingOperations ==
  {"set_mode", "set_timestamp_offset", "set_append_window_start",
   "set_append_window_end", "AppendBuffer", "Remove", "Abort"}

\* C18: a set_mode, set_timestamp_offset, set_append_window_start,
\* set_append_window_end, AppendBuffer, Remove or Abort that raises
\* (InvalidStateErr, TypeError or QuotaExceededErr) changes no field of the
\* buffer, leaves the parent's ready state, the demuxed store and the parser
\* as they were, and enqueues nothing.
C18_RejectionChangesNothing ==
  [][(Handler(trace') \in RejectingOperations /\ Called(trace', "Raise"))
       => /\ UNCHANGED <<sbFields, sbEnv>>
          /\ EnqueuedIn(trace') = <<>>]_vars

\* A step of set_mode.
SetModeRan == Handler(trace') = "set_mode"

\* C19 as stated: set_mode(mode) raises InvalidStateErr if the parent source
\* is not open (the buffer is detached, or the parent has ended), if
\* updating_ is set, or if the parser is inside a media segment; otherwise it
\* sets the parser's sequence mode and mode_ as mode asks.
C19_SetModeNeedsOpenParent ==
  [][\A mode \in AppendModes :
       (SetModeRan /\ set_mode(mode))
         => IF \/ ~media_source_
               \/ ~IsOpen
               \/ updating_
               \/ parsing_media_segment
              THEN trace' = <<Ran("set_mode"), Raise(kInvalidStateErr)>>
              ELSE /\ trace' = <<Ran("set_mode")>>
                   /\ mode_' = mode
                   /\ sequence_mode' <=>
                        (mode = kSourceBufferAppendModeSequence)]_vars

\* C19, amended: set_mode(mode) raises InvalidStateErr if the buffer is
\* detached from its parent, if updating_ is set, or if the parser is inside
\* a media segment, and then leaves mode_ and the sequence mode; on a
\* detached or updating buffer it changes nothing at all, on any other it
\* has the parent reopened if it had ended (OpenIfInEndedState), also when it
\* then raises for the media segment.  Otherwise it sets the parser's
\* sequence mode and mode_ as mode asks.
C19_SetMode ==
  [][\A mode \in AppendModes :
       (SetModeRan /\ set_mode(mode))
         => /\ IF ~media_source_ \/ updating_ \/ parsing_media_segment
                 THEN /\ trace' = <<Ran("set_mode"), Raise(kInvalidStateErr)>>
                      /\ UNCHANGED <<mode_, sequence_mode>>
                 ELSE /\ trace' = <<Ran("set_mode")>>
                      /\ mode_' = mode
                      /\ sequence_mode' <=>
                           (mode = kSourceBufferAppendModeSequence)
            /\ IF ~media_source_ \/ updating_
                 THEN UNCHANGED <<sbFields, sbEnv, events, slices>>
                 ELSE ready_state' = OpenIfInEndedState(ready_state)]_vars

\* set_mode has put a buffer that holds frames into sequence mode.
C19_Witness ==
  /\ trace = <<Ran("set_mode")>>
  /\ mode_ = kSourceBufferAppendModeSequence
  /\ sequence_mode
  /\ buffered # {}
  /\ media_source_

\* C20: OnRemovedFromMediaSource on an attached buffer ends whatever was
\* pending (no timer is left scheduled, no range is pending, updating_ is
\* false), releases the pending-append buffer (none, capacity 0), removes the
\* buffer's id from the demuxer and cuts the link to the parent; on a
\* detached buffer it changes nothing, calls nothing and enqueues nothing.
\* A detached buffer stays detached, with nothing scheduled, and no unit
\* runs on it.
C20_DetachIsIdempotent ==
  [][/\ Detached
          => /\ ~media_source_'
             /\ ~updating_'
             /\ ~append_timer_'
             /\ ~remove_timer_'
             /\ pending_remove_start_' = Num(-1)
             /\ pending_remove_end_' = Num(-1)
             /\ pending_append_data_' = -1
             /\ pending_append_data_capacity_' = 0
             /\ pending_append_data_size_' = 0
             /\ Called(trace', "RemoveId")
     /\ (Handler(trace') = "OnRemovedFromMediaSource" /\ ~media_source_)
          => /\ trace' = <<Ran("OnRemovedFromMediaSource")>>
             /\ UNCHANGED <<sbFields, sbEnv, events, slices>>
     /\ ~media_source_
          => /\ ~media_source_'
             /\ ~updating_'
             /\ ~append_timer_'
             /\ ~remove_timer_'
             /\ Handler(trace') \notin {"OnAppendTimer", "OnRemoveTimer"}]_vars

\* OnRemovedFromMediaSource has run on a buffer that was detached already.
C20_Witness ==
  /\ trace = <<Ran("OnRemovedFromMediaSource")>>
  /\ ~media_source_
  /\ pending_append_data_ = -1
  /\ pending_append_data_capacity_ = 0
  /\ ~updating_

\* C21: an accepted AppendBuffer leaves the append window and the mode as
\* the setters left them; while the append is in flight (its timer is
\* scheduled before and after the step) no step changes the window, mode_ or
\* the parser's sequence mode; every unit hands AppendData exactly the
\* window of that moment, and the frames its parse adds to the store lie in
\* [append_window_start_, append_window_end_).
C21_AppendKeepsWindow ==
  [][/\ AppendAccepted
          => UNCHANGED <<append_window_start_, append_window_end_, mode_,
                         sequence_mode>>
     /\ (append_timer_ /\ append_timer_')
          => UNCHANGED <<append_window_start_, append_window_end_, mode_,
                         sequence_mode>>
     /\ UnitRan
          => /\ UnitOf(trace')[3] = DoubleToTimeDelta(append_window_start_)
             /\ UnitOf(trace')[4] = DoubleToTimeDelta(append_window_end_)
             /\ UNCHANGED <<append_window_start_, append_window_end_, mode_,
                            sequence_mode>>
             /\ \A t \in buffered' \ buffered :
                  /\ DLe(append_window_start_, Num(t))
                  /\ DLt(Num(t), append_window_end_)]_vars

\* The third unit of an append was parsed under the window [0, 1), which a
\* setter had put in place of [0, +infinity), and the store holds a frame.
C21_Witness ==
  /\ Handler(trace) = "OnAppendTimer"
  /\ UnitOf(trace)[1] = 2 * kMaxAppendSize
  /\ UnitOf(trace)[3] = DoubleToTimeDelta(Num(0))
  /\ UnitOf(trace)[4] = DoubleToTimeDelta(Num(1))
  /\ append_window_end_ = Num(1)
  /\ buffered # {}

(***************************************************************************)
(* StarboardPlayer: constants and values.                                  *)
(***************************************************************************)
kPlaying == "kPlaying"
kSuspended == "kSuspended"
kResuming == "kResuming"

kSbPlayerInvalid == 0
SB_PLAYER_INITIAL_TICKET == 0

\* DemuxerStream::Type and SbMediaType, and the conversions between them.
Tracks == {"AUDIO", "VIDEO"}
DemuxerStreamTypeToSbMediaType(type) ==
  IF type = "AUDIO" THEN "kSbMediaTypeAudio" ELSE "kSbMediaTypeVideo"
SbMediaTypeToDemuxerStreamType(type) ==
  IF type = "kSbMediaTypeAudio" THEN "AUDIO" ELSE "VIDEO"

\* The player states the native player reports.
kSbPlayerStateInitialized == "kSbPlayerStateInitialized"
kSbPlayerStatePresenting == "kSbPlayerStatePresenting"

SbPlayerIsValid(player) == player # kSbPlayerInvalid

\* A DecoderBuffer: the address of its data, its timestamp in seconds, and
\* whether it is the end-of-stream marker (which has no data).
Addrs == 1 .. MaxAddr
Stamps == 0 .. MaxStamp
Buffer(data, timestamp) ==
  [data |-> data, timestamp |-> timestamp, end_of_stream |-> FALSE]
EndOfStreamBuffer == [data |-> 0, timestamp |-> 0, end_of_stream |-> TRUE]
NoBuffer == [data |-> 0, timestamp |-> 0, end_of_stream |-> FALSE]

\* The callbacks bound and posted to task_runner_: <<method, player, argument,
\* ticket>>.
Task(method, player, argument, ticket) == <<method, player, argument, ticket>>

(***************************************************************************)
(* DecoderBufferCache, which the sources at hand only use: per track the   *)
(* cached samples in write order and the replay cursor.                    *)
(***************************************************************************)
EmptyCache ==
  [buffers |-> [t \in Tracks |-> <<>>], index |-> [t \in Tracks |-> 0]]

AddBuffer(cache, type, buffer) ==
  [cache EXCEPT !.buffers[type] = Append(@, buffer)]

\* The sample at the cursor, NoBuffer (a null pointer) when there is none.
GetBuffer(cache, type) ==
  IF cache.index[type] < Len(cache.buffers[type])
    THEN cache.buffers[type][cache.index[type] + 1]
    ELSE NoBuffer

AdvanceToNextBuffer(cache, type) ==
  [cache EXCEPT !.index[type] = @ + 1]

StartResuming(cache) == [cache EXCEPT !.index = [t \in Tracks |-> 0]]

ClearAll(cache) == EmptyCache

\* How many leading samples of buffers are strictly older than media_time.
RECURSIVE OlderPrefix(_, _)
OlderPrefix(buffers, media_time) ==
  IF buffers = <<>> THEN 0
  ELSE IF ~Head(buffers).end_of_stream /\ Head(buffers).timestamp < media_time
    THEN 1 + OlderPrefix(Tail(buffers), media_time)
  ELSE 0

ClearSegmentsBeforeMediaTime(cache, media_time) ==
  [buffers |->
     [t \in Tracks |->
        SubSeq(cache.buffers[t],
               OlderPrefix(cache.buffers[t], media_time) + 1,
               Len(cache.buffers[t]))],
   index |->
     [t \in Tracks |->
        IF cache.index[t] < OlderPrefix(cache.buffers[t], media_time)
          THEN 0
          ELSE cache.index[t] - OlderPrefix(cache.buffers[t], media_time)]]

(***************************************************************************)
(* StarboardPlayer::StarboardPlayer: the state after construction.         *)
(* SbPlayerCreate may fail: the constructor then leaves player_ invalid    *)
(* and posts no ClearDecoderBufferCache.                                   *)
(***************************************************************************)
\* base::Optional without a value.
nullopt == <<>>

\* The message of an error the native layer reports, "" for none.
NoMessage == ""
CreationMessage == "creation failed"

\* A faulty TryToSetPlayerCreationErrorMessage that never takes the message.
TryToSetNever(is_creating) == FALSE

\* TryToSetPlayerCreationErrorMessage: whether it takes the message.
TryToSetPlayerCreationErrorMessage(is_creating) == is_creating

\* PlayerErrorCB(player, ...), with is_creating_player_ as given: the
\* message of an invalid player is captured while a player is created,
\* every other error is posted to the task runner as OnPlayerError.
PlayerErrorCBOutcome(player, is_creating) ==
  IF player = kSbPlayerInvalid /\ TryToSetPlayerCreationErrorMessage(is_creating)
    THEN "captured" ELSE "posted"

\* CreatePlayer: creation_error tells whether SbPlayerCreate, before it
\* returns, reports an error through PlayerErrorCB with kSbPlayerInvalid;
\* is_creating_player_ is true during the call and false after it.
MessageAfterCreate(creation_error) ==
  IF creation_error /\ PlayerErrorCBOutcome(kSbPlayerInvalid, TRUE) = "captured"
    THEN CreationMessage ELSE player_creation_error_message_
QueueAfterCreate(creation_error) ==
  IF creation_error /\ PlayerErrorCBOutcome(kSbPlayerInvalid, TRUE) = "posted"
    THEN Append(task_queue,
                <<"OnPlayerError", kSbPlayerInvalid, "kSbPlayerErrorDecode", 0>>)
    ELSE task_queue

\* The threads that take lock_: the task runner's, on which Suspend and
\* Resume run, and the thread of the callers of SetBounds and GetInfo.
Threads == {"task_runner", "caller"}
kLockFree == "free"
kIdle == "idle"

\* UpdateBounds_Locked with the stored bounds given: the native call it
\* makes.
UpdateBoundsCalls(z_index, rect) ==
  IF z_index = nullopt \/ rect = nullopt THEN <<>>
  ELSE <<Call("SbPlayerSetBounds", <<z_index[1], rect[1]>>)>>

\* The constructor: created tells whether SbPlayerCreate hands out a
\* player, creation_error whether it reports an error while it runs.
StarboardPlayerConstructor(allow, created, creation_error) ==
  /\ allow_resume_after_suspend_ = allow
  /\ sb_created = IF created THEN 1 ELSE 0
  /\ set_bounds_z_index_ = nullopt
  /\ set_bounds_rect_ = nullopt
  /\ is_creating_player_ = FALSE
  /\ player_creation_error_message_ =
       IF creation_error THEN CreationMessage ELSE NoMessage
  /\ volume_ = 1
  /\ playback_rate_ = 0
  /\ lock_ = kLockFree
  /\ position = [thread \in Threads |-> kIdle]
  /\ player_ = IF sb_created = 1 THEN 1 ELSE kSbPlayerInvalid
  /\ clear_cache_posted_ = SbPlayerIsValid(player_)
  /\ state_ = kPlaying
  /\ ticket_ = SB_PLAYER_INITIAL_TICKET
  /\ seek_pending_ = FALSE
  /\ preroll_timestamp_ = 0
  /\ decoder_buffer_cache_ = EmptyCache
  /\ decoding_buffers_ = [a \in Addrs |-> 0]
  /\ callback_helper_player_ = TRUE
  /\ sb_ticket = SB_PLAYER_INITIAL_TICKET
  /\ sb_held = EmptyBag
  /\ task_queue = <<>>
  /\ sp_calls = <<Ran("StarboardPlayer"), Call("SbPlayerCreate", <<>>)>>
  /\ replayed = [t \in Tracks |-> <<>>]

\* The controllers of the specification SpecSP: no error is reported while
\* the first player is created.
InitSP ==
  \E allow \in BOOLEAN, created \in BOOLEAN :
    StarboardPlayerConstructor(allow, created, FALSE)

\* The controllers of the specification SpecTR: the decoder buffer cache is
\* enabled.
InitTrimming ==
  \E created \in BOOLEAN : StarboardPlayerConstructor(TRUE, created, FALSE)

\* The controllers of the specification SpecRP: the decoder buffer cache is
\* enabled and the first player created.
InitReplay == StarboardPlayerConstructor(TRUE, TRUE, FALSE)

\* The controllers of the specification SpecOP: with or without the decoder
\* buffer cache, the first player created or not.
InitOperations ==
  \E allow \in BOOLEAN, created \in BOOLEAN :
    StarboardPlayerConstructor(allow, created, FALSE)

\* The controllers of the specification SpecLK: the first player created or
\* not, the decoder buffer cache enabled.
InitLocking ==
  \E created \in BOOLEAN : StarboardPlayerConstructor(TRUE, created, FALSE)

\* The controllers of the specification SpecST: the decoder buffer cache is
\* enabled and the first player created.
InitStatus == StarboardPlayerConstructor(TRUE, TRUE, FALSE)

\* The controllers of the specification SpecSK: the decoder buffer cache is
\* enabled and the first player created.
InitSeeking == StarboardPlayerConstructor(TRUE, TRUE, FALSE)

\* The controllers of the specification SpecDA: with or without the decoder
\* buffer cache, the first player created or not.
InitDeallocation ==
  \E allow \in BOOLEAN, created \in BOOLEAN :
    StarboardPlayerConstructor(allow, created, FALSE)

\* The controllers of the specification SpecCB: the decoder buffer cache is
\* enabled, and a failing SbPlayerCreate may report an error.
InitCallbacks ==
  \E created \in BOOLEAN, creation_error \in BOOLEAN :
    /\ creation_error => ~created
    /\ StarboardPlayerConstructor(TRUE, created, creation_error)

\* The controllers of the specification SpecPL: the decoder buffer cache is
\* enabled, and a failing SbPlayerCreate may report an error.
InitLifecycle ==
  \E created \in BOOLEAN, creation_error \in BOOLEAN :
    /\ creation_error => ~created
    /\ StarboardPlayerConstructor(TRUE, created, creation_error)

(***************************************************************************)
(* The write path.                                                         *)
(***************************************************************************)
\* A faulty WriteBufferInternal that sets the count of a sample it already
\* holds back to 1.
CountAlwaysOne(count) == 1

\* WriteBufferInternal: the reference count of a sample's address after one
\* more dispatch (0: the address has no entry yet).
CountAfterDispatch(count) == count + 1

\* WriteBufferInternal: decoding_buffers_ after the dispatch of buffer.
DecodingBuffersAfterWrite(buffer) ==
  IF buffer.end_of_stream
    THEN decoding_buffers_
    ELSE [decoding_buffers_ EXCEPT ![buffer.data] = CountAfterDispatch(@)]

\* A faulty WriteBufferInternal that hands nothing to the native player.
NoWriteCalls(type, buffer) == <<>>

\* WriteBufferInternal: the native call it makes.
WriteCalls(type, buffer) ==
  IF buffer.end_of_stream
    THEN <<Call("SbPlayerWriteEndOfStream",
                <<DemuxerStreamTypeToSbMediaType(type)>>)>>
    ELSE <<Call("SbPlayerWriteSample2",
                <<DemuxerStreamTypeToSbMediaType(type)>>)>>

\* How many dispatches of an address the native players hold.
CopiesOf(a, held) == IF BagIn(a, held) THEN CopiesIn(a, held) ELSE 0

\* What the native player holds after SbPlayerWriteSample2: a valid player
\* keeps the sample until it reports its deallocation, an invalid handle
\* takes nothing.
HeldAfterWrite(buffer) ==
  IF buffer.end_of_stream \/ ~SbPlayerIsValid(player_)
    THEN sb_held
    ELSE sb_held (+) SetToBag({buffer.data})

\* WriteBufferInternal(type, buffer).
WriteBufferInternal(type, buffer) ==
  /\ decoding_buffers_' = DecodingBuffersAfterWrite(buffer)
  /\ sb_held' = HeldAfterWrite(buffer)

\* WriteNextBufferFromCache(type), on the cache given: the sample at the
\* cursor is written and the cursor moves on.  The samples so written since
\* Resume are kept in replayed while the state is kResuming.
WriteNextBufferFromCache(cache, type) ==
  /\ SbPlayerIsValid(player_)
  /\ decoder_buffer_cache_' = AdvanceToNextBuffer(cache, type)
  /\ WriteBufferInternal(type, GetBuffer(cache, type))
  /\ replayed' =
       IF state_ = kResuming
         THEN [replayed EXCEPT ![type] = Append(@, GetBuffer(cache, type))]
         ELSE replayed

\* The addresses a new sample can have: those of no sample that is alive (in
\* the cache, or in decoding_buffers_).
FreeAddrs ==
  {a \in Addrs :
     /\ decoding_buffers_[a] = 0
     /\ \A t \in Tracks :
          \A i \in 1 .. Len(decoder_buffer_cache_.buffers[t]) :
            decoder_buffer_cache_.buffers[t][i].data # a}

\* The timestamp of the next sample of a track: one second after the last
\* cached one (the last second of the stream goes on), 0 when none is cached.
NextStampUpTo(type, max) ==
  LET buffers == decoder_buffer_cache_.buffers[type]
  IN IF buffers = <<>> THEN 0
     ELSE IF buffers[Len(buffers)].timestamp < max
       THEN buffers[Len(buffers)].timestamp + 1
     ELSE max
NextStamp(type) == NextStampUpTo(type, MaxStamp)

\* Whether the track's cached samples end with the end-of-stream marker.
TrackEnded(type) ==
  LET buffers == decoder_buffer_cache_.buffers[type]
  IN buffers # <<>> /\ buffers[Len(buffers)].end_of_stream

\* The address the allocator gives the next sample: the lowest free one.
NewAddrs == {a \in FreeAddrs : \A b \in FreeAddrs : a <= b}

\* The samples the pipeline may write next to a track: in timestamp order,
\* nothing after the end of the stream.
NewBuffers(type) ==
  IF TrackEnded(type) THEN {}
  ELSE {EndOfStreamBuffer} \cup {Buffer(a, NextStamp(type)) : a \in NewAddrs}

\* The same with timestamps up to MaxMediaTime.
TimedBuffers(type) ==
  IF TrackEnded(type) THEN {}
  ELSE {EndOfStreamBuffer} \cup
       {Buffer(a, NextStampUpTo(type, MaxMediaTime)) : a \in NewAddrs}

\* WriteBuffer(type, buffer).  WriteNextBufferFromCache asserts a valid
\* player.
WriteBuffer(type, buffer) ==
  /\ callback_helper_player_
  /\ IF allow_resume_after_suspend_
       THEN LET added == AddBuffer(decoder_buffer_cache_, type, buffer)
            IN /\ Len(decoder_buffer_cache_.buffers["AUDIO"]) +
                    Len(decoder_buffer_cache_.buffers["VIDEO"]) < MaxCached
               /\ IF state_ # kSuspended
                    THEN /\ WriteNextBufferFromCache(added, type)
                         /\ sp_calls' =
                              <<Ran("WriteBuffer")>> \o
                              WriteCalls(type, GetBuffer(added, type))
                    ELSE /\ decoder_buffer_cache_' = added
                         /\ sp_calls' = <<Ran("WriteBuffer")>>
                         /\ UNCHANGED <<decoding_buffers_, sb_held, replayed>>
       ELSE /\ WriteBufferInternal(type, buffer)
            /\ sp_calls' = <<Ran("WriteBuffer")>> \o WriteCalls(type, buffer)
            /\ UNCHANGED <<decoder_buffer_cache_, replayed>>
  /\ UNCHANGED <<state_, player_, ticket_, seek_pending_, preroll_timestamp_,
                 allow_resume_after_suspend_, clear_cache_posted_,
                 callback_helper_player_, spBounds,
                 spRates, spCreation, sb_created,
                 sb_ticket, task_queue>>

(***************************************************************************)
(* Volume, playback rate and playback information.                         *)
(***************************************************************************)
\* The volumes and playback rates the pipeline sets: muted and full, paused
\* and normal speed.
Volumes == {0, 1}
PlaybackRates == {0, 1}

\* SetVolume, after volume_ is stored: the native call, none while
\* suspended.
SetVolumeCalls(volume) ==
  IF state_ = kSuspended THEN <<>>
  ELSE <<Call("SbPlayerSetVolume", <<volume>>)>>

\* SetVolume(volume); it asserts a valid player when not suspended.
SetVolume(volume) ==
  /\ callback_helper_player_
  /\ volume_' = volume
  /\ state_ # kSuspended => SbPlayerIsValid(player_)
  /\ sp_calls' = <<Ran("SetVolume")>> \o SetVolumeCalls(volume)
  /\ UNCHANGED <<state_, player_, ticket_, seek_pending_, preroll_timestamp_,
                 allow_resume_after_suspend_, decoder_buffer_cache_,
                 decoding_buffers_, clear_cache_posted_,
                 callback_helper_player_, spBounds, spCreation,
                 playback_rate_, spNative, replayed>>

\* SetPlaybackRate(playback_rate): the native call is put off while
\* suspended and while a seek is pending.
SetPlaybackRate(playback_rate) ==
  /\ callback_helper_player_
  /\ playback_rate_' = playback_rate
  /\ sp_calls' =
       IF state_ = kSuspended \/ seek_pending_
         THEN <<Ran("SetPlaybackRate")>>
         ELSE <<Ran("SetPlaybackRate"),
                Call("SbPlayerSetPlaybackRate", <<playback_rate>>)>>
  /\ UNCHANGED <<state_, player_, ticket_, seek_pending_, preroll_timestamp_,
                 allow_resume_after_suspend_, decoder_buffer_cache_,
                 decoding_buffers_, clear_cache_posted_,
                 callback_helper_player_, spBounds, spCreation, volume_,
                 spNative, replayed>>

\* GetInfo: while suspended the values cached by Suspend are handed out,
\* otherwise GetInfo_Locked, which asserts a valid player, asks it.
GetInfo ==
  /\ callback_helper_player_
  /\ state_ # kSuspended => SbPlayerIsValid(player_)
  /\ sp_calls' =
       IF state_ = kSuspended
         THEN <<Ran("GetInfo")>>
         ELSE <<Ran("GetInfo"), Call("SbPlayerGetInfo2", <<>>)>>
  /\ UNCHANGED <<spFields, spNative, replayed>>

(***************************************************************************)
(* Seeking.                                                                *)
(***************************************************************************)
NoReplay == [t \in Tracks |-> <<>>]

\* A faulty ++ticket_ that leaves the ticket as it is.
TicketKept(ticket) == ticket

\* ++ticket_ in PrepareForSeek and Seek.
TicketAfterIncrement(ticket) == ticket + 1

PrepareForSeek ==
  /\ callback_helper_player_
  /\ seek_pending_' = TRUE
  /\ IF state_ = kSuspended
       THEN /\ sp_calls' = <<Ran("PrepareForSeek")>>
            /\ UNCHANGED ticket_
       ELSE /\ ticket_ < MaxTicket
            /\ ticket_' = TicketAfterIncrement(ticket_)
            /\ sp_calls' = <<Ran("PrepareForSeek"),
                             Call("SbPlayerSetPlaybackRate", <<0>>)>>
  /\ UNCHANGED <<state_, player_, preroll_timestamp_,
                 allow_resume_after_suspend_, decoder_buffer_cache_,
                 decoding_buffers_, clear_cache_posted_,
                 callback_helper_player_, spBounds,
                 spRates, spCreation, spNative,
                 replayed>>

\* A faulty Seek that leaves kResuming as it is.
StateKeptBySeek(state) == state

\* Seek, not suspended: kResuming becomes kPlaying.
StateAfterSeek(state) == IF state = kResuming THEN kPlaying ELSE state

\* A faulty Seek that forgets the time it is given while suspended.
PrerollKeptBySeek(time) == preroll_timestamp_

\* Seek, suspended: preroll_timestamp_, to which the next player is sought
\* when it reports kSbPlayerStateInitialized.
PrerollAfterSeek(time) == time

\* Seek(time); it asserts a valid player when not suspended.
Seek(time) ==
  /\ callback_helper_player_
  /\ decoder_buffer_cache_' = ClearAll(decoder_buffer_cache_)
  /\ seek_pending_' = FALSE
  /\ replayed' = NoReplay
  /\ IF state_ = kSuspended
       THEN /\ preroll_timestamp_' = PrerollAfterSeek(time)
            /\ sp_calls' = <<Ran("Seek")>>
            /\ UNCHANGED <<state_, ticket_, sb_ticket>>
       ELSE /\ SbPlayerIsValid(player_)
            /\ ticket_ < MaxTicket
            /\ state_' = StateAfterSeek(state_)
            /\ ticket_' = TicketAfterIncrement(ticket_)
            /\ sb_ticket' = ticket_'
            /\ sp_calls' =
                 <<Ran("Seek"),
                   Call("SbPlayerSeek2", <<time, ticket_'>>),
                   Call("SbPlayerSetPlaybackRate", <<playback_rate_>>)>>
            /\ UNCHANGED preroll_timestamp_
  /\ UNCHANGED <<player_, allow_resume_after_suspend_, decoding_buffers_,
                 clear_cache_posted_, callback_helper_player_, spBounds,
                 spRates,
                 spCreation, sb_created, sb_held, task_queue>>

(***************************************************************************)
(* Suspend and resume.                                                     *)
(***************************************************************************)
\* state_ after a Suspend that found the player running.
StateAfterSuspend == kSuspended

\* The calls of a Suspend that found the player running, in order.  GetInfo_Locked
\* reads the native player's counters and media time into
\* cached_video_frames_decoded_, cached_video_frames_dropped_ and
\* preroll_timestamp_.
SuspendCalls ==
  <<Call("SbPlayerSetPlaybackRate", <<0>>),
    Call("set_bounds_helper_->SetPlayer", <<"NULL">>),
    Call("SbPlayerGetInfo2", <<>>),
    Call("decode_target_provider_->SetOutputMode", <<"kOutputModeInvalid">>),
    Call("decode_target_provider_->ResetGetCurrentSbDecodeTargetFunction",
         <<>>),
    Call("SbPlayerDestroy", <<>>)>>

\* Suspend; media_time is the media time SbPlayerGetInfo2 reports.  It
\* asserts a valid player when not yet suspended.
Suspend(media_time) ==
  /\ callback_helper_player_
  /\ IF state_ = kSuspended
       THEN /\ sp_calls' = <<Ran("Suspend")>>
            /\ UNCHANGED <<state_, player_, preroll_timestamp_, replayed>>
       ELSE /\ SbPlayerIsValid(player_)
            /\ preroll_timestamp_' = media_time
            /\ state_' = StateAfterSuspend
            /\ player_' = kSbPlayerInvalid
            /\ replayed' = NoReplay
            /\ sp_calls' = <<Ran("Suspend")>> \o SuspendCalls
  /\ UNCHANGED <<ticket_, seek_pending_, allow_resume_after_suspend_,
                 decoder_buffer_cache_, decoding_buffers_,
                 clear_cache_posted_, callback_helper_player_, spBounds,
                 spRates,
                 spCreation, spNative>>

\* The cache as Resume leaves it.
CacheAfterResume == StartResuming(decoder_buffer_cache_)

\* A faulty Resume that forgets the bounds stored while suspended.
NoBoundsCalls(z_index, rect) == <<>>

\* The calls of a Resume that found the controller suspended and got a
\* player: UpdateBounds_Locked runs at the end of CreatePlayer and once
\* more when Resume has set kResuming.
ResumeBoundsCalls(z_index, rect) ==
  UpdateBoundsCalls(z_index, rect) \o UpdateBoundsCalls(z_index, rect)

\* Resume; created tells whether SbPlayerCreate hands out a player,
\* creation_error whether it reports an error while it runs (a failing
\* creation may).  It asserts a valid player when not suspended.
Resume(created, creation_error) ==
  /\ callback_helper_player_
  /\ IF state_ # kSuspended
       THEN /\ SbPlayerIsValid(player_)
            /\ created = FALSE
            /\ creation_error = FALSE
            /\ sp_calls' = <<Ran("Resume")>>
            /\ UNCHANGED <<state_, player_, decoder_buffer_cache_,
                           sb_created, sb_ticket, replayed, task_queue,
                           player_creation_error_message_>>
       ELSE /\ decoder_buffer_cache_' = CacheAfterResume
            /\ replayed' = NoReplay
            /\ creation_error => ~created
            /\ player_creation_error_message_' =
                 MessageAfterCreate(creation_error)
            /\ task_queue' = QueueAfterCreate(creation_error)
            /\ IF created
                 THEN /\ sb_created < MaxPlayers
                      /\ sb_created' = sb_created + 1
                      /\ player_' = sb_created'
                      /\ sb_ticket' = SB_PLAYER_INITIAL_TICKET
                      /\ state_' = kResuming
                      /\ sp_calls' =
                           <<Ran("Resume"), Call("SbPlayerCreate", <<>>)>> \o
                           ResumeBoundsCalls(set_bounds_z_index_,
                                             set_bounds_rect_)
                 ELSE /\ player_' = kSbPlayerInvalid
                      /\ sp_calls' =
                           <<Ran("Resume"), Call("SbPlayerCreate", <<>>)>>
                      /\ UNCHANGED <<state_, sb_created, sb_ticket>>
  /\ UNCHANGED <<ticket_, seek_pending_, preroll_timestamp_,
                 allow_resume_after_suspend_, decoding_buffers_,
                 clear_cache_posted_, callback_helper_player_, spBounds,
                 spRates,
                 is_creating_player_, sb_held>>

\* SetBounds(z_index, rect): the bounds are stored; unless suspended,
\* UpdateBounds_Locked, which asserts a valid player, hands them to it.
SetBounds(z_index, rect) ==
  /\ callback_helper_player_
  /\ set_bounds_z_index_' = <<z_index>>
  /\ set_bounds_rect_' = <<rect>>
  /\ IF state_ = kSuspended
       THEN sp_calls' = <<Ran("SetBounds")>>
       ELSE /\ SbPlayerIsValid(player_)
            /\ sp_calls' =
                 <<Ran("SetBounds")>> \o
                 UpdateBoundsCalls(set_bounds_z_index_', set_bounds_rect_')
  /\ UNCHANGED <<state_, player_, ticket_, seek_pending_, preroll_timestamp_,
                 allow_resume_after_suspend_, decoder_buffer_cache_,
                 decoding_buffers_, clear_cache_posted_,
                 callback_helper_player_, spCreation, spRates, spNative,
                 replayed>>

\* A faulty ClearDecoderBufferCache that trims in every state.
ClearsSegmentsAlways(state) == TRUE

\* ClearDecoderBufferCache: whether the run trims the cache.
ClearsSegments(state) == state # kResuming

\* A faulty CallbackHelper::ClearDecoderBufferCache that posts the task
\* again also when its player_ is reset.
ClearCachePostedAlways(helper_player) == TRUE

\* CallbackHelper::ClearDecoderBufferCache: whether the task is posted again
\* by the run; only StarboardPlayer::ClearDecoderBufferCache posts it, and
\* the helper calls that only while its player_ is set.
ClearCachePostedAgain(helper_player) == helper_player

\* The periodic ClearDecoderBufferCache task; media_time is the media time
\* SbPlayerGetInfo2 reports when the player is not suspended.  After the
\* destructor the CallbackHelper runs nothing and posts nothing more.
ClearDecoderBufferCache(media_time) ==
  /\ clear_cache_posted_
  /\ clear_cache_posted_' = ClearCachePostedAgain(callback_helper_player_)
  /\ IF ~callback_helper_player_
       THEN /\ media_time = 0
            /\ sp_calls' = <<Ran("ClearDecoderBufferCache")>>
            /\ UNCHANGED decoder_buffer_cache_
       ELSE IF ~ClearsSegments(state_)
       THEN /\ media_time = 0
            /\ sp_calls' = <<Ran("ClearDecoderBufferCache")>>
            /\ UNCHANGED decoder_buffer_cache_
       ELSE IF state_ = kSuspended
       THEN /\ media_time = preroll_timestamp_
            /\ sp_calls' = <<Ran("ClearDecoderBufferCache")>>
            /\ decoder_buffer_cache_' =
                 ClearSegmentsBeforeMediaTime(decoder_buffer_cache_, media_time)
       ELSE /\ SbPlayerIsValid(player_)
            /\ sp_calls' = <<Ran("ClearDecoderBufferCache"),
                             Call("SbPlayerGetInfo2", <<>>)>>
            /\ decoder_buffer_cache_' =
                 ClearSegmentsBeforeMediaTime(decoder_buffer_cache_, media_time)
  /\ UNCHANGED <<state_, player_, ticket_, seek_pending_, preroll_timestamp_,
                 allow_resume_after_suspend_, decoding_buffers_,
                 callback_helper_player_, spBounds, spRates, spCreation,
                 spNative, replayed>>

\* StarboardPlayer::~StarboardPlayer: the CallbackHelper is reset and the
\* player destroyed.  The object is gone afterwards: its fields are given
\* the values of a fresh object, so that the states after the destructor
\* differ only in what the task runner still holds (what a destroyed player
\* gives back after this reaches nobody).
StarboardPlayerDestructor ==
  /\ callback_helper_player_
  /\ callback_helper_player_' = FALSE
  /\ sp_calls' =
       IF SbPlayerIsValid(player_)
         THEN <<Ran("~StarboardPlayer"), Call("SbPlayerDestroy", <<>>)>>
         ELSE <<Ran("~StarboardPlayer")>>
  /\ state_' = kPlaying
  /\ player_' = kSbPlayerInvalid
  /\ ticket_' = SB_PLAYER_INITIAL_TICKET
  /\ seek_pending_' = FALSE
  /\ preroll_timestamp_' = 0
  /\ decoder_buffer_cache_' = EmptyCache
  /\ decoding_buffers_' = [a \in Addrs |-> 0]
  /\ sb_ticket' = SB_PLAYER_INITIAL_TICKET
  /\ replayed' = NoReplay
  /\ sb_held' = EmptyBag
  /\ set_bounds_z_index_' = nullopt
  /\ set_bounds_rect_' = nullopt
  /\ player_creation_error_message_' = NoMessage
  /\ volume_' = 1
  /\ playback_rate_' = 0
  /\ UNCHANGED <<allow_resume_after_suspend_, clear_cache_posted_,
                 is_creating_player_, sb_created, task_queue>>

(***************************************************************************)
(* The callbacks, run from the task runner through the CallbackHelper,     *)
(* which runs nothing once the destructor has reset it.                    *)
(***************************************************************************)
NextTaskIs(method) == task_queue # <<>> /\ Head(task_queue)[1] = method

\* A faulty OnDecoderStatus filter that compares the handle alone.
DecoderStatusHandleOnly(player, ticket) == player_ # player

\* OnDecoderStatus: the callback is for another player or another ticket.
DecoderStatusIsStale(player, ticket) == player_ # player \/ ticket # ticket_

\* A faulty end of replay that looks at the reported track alone.
ReplayDoneForTrack(cache, stream_type) ==
  GetBuffer(cache, stream_type) = NoBuffer

\* OnDecoderStatus: nothing is left to replay for either track.
ReplayDone(cache, stream_type) ==
  /\ GetBuffer(cache, "AUDIO") = NoBuffer
  /\ GetBuffer(cache, "VIDEO") = NoBuffer

OnDecoderStatus ==
  /\ NextTaskIs("OnDecoderStatus")
  /\ task_queue' = Tail(task_queue)
  /\ LET player == Head(task_queue)[2]
         type == Head(task_queue)[3]
         ticket == Head(task_queue)[4]
         stream_type == SbMediaTypeToDemuxerStreamType(type)
         need_data == <<Ran("OnDecoderStatus"),
                       Call("host_->OnNeedData", <<stream_type>>)>>
     IN
     IF ~callback_helper_player_ \/ DecoderStatusIsStale(player, ticket)
       THEN /\ sp_calls' = <<Ran("OnDecoderStatus")>>
            /\ UNCHANGED <<state_, decoder_buffer_cache_, decoding_buffers_,
                           sb_held, replayed>>
       ELSE IF state_ = kResuming /\
               GetBuffer(decoder_buffer_cache_, stream_type) # NoBuffer
       THEN /\ WriteNextBufferFromCache(decoder_buffer_cache_, stream_type)
            /\ sp_calls' =
                 <<Ran("OnDecoderStatus")>> \o
                 WriteCalls(stream_type,
                            GetBuffer(decoder_buffer_cache_, stream_type))
            /\ UNCHANGED state_
       ELSE /\ IF state_ = kResuming /\
                  ReplayDone(decoder_buffer_cache_, stream_type)
                 THEN /\ state_' = kPlaying
                      /\ replayed' = NoReplay
                 ELSE UNCHANGED <<state_, replayed>>
            /\ sp_calls' = need_data
            /\ UNCHANGED <<decoder_buffer_cache_, decoding_buffers_, sb_held>>
  /\ UNCHANGED <<player_, ticket_, seek_pending_, preroll_timestamp_,
                 allow_resume_after_suspend_, clear_cache_posted_,
                 callback_helper_player_, spBounds,
                 spRates, spCreation, sb_created,
                 sb_ticket>>

\* A faulty OnPlayerStatus that takes the current ticket alone.
PlayerStatusCurrentTicketOnly(player, ticket) ==
  player_ # player \/ ticket # ticket_

\* OnPlayerStatus: the callback is for another player, or its ticket is
\* neither the initial nor the current one.
PlayerStatusIsStale(player, ticket) ==
  \/ player_ # player
  \/ (ticket # SB_PLAYER_INITIAL_TICKET /\ ticket # ticket_)

\* A faulty OnPlayerStatus that gives every initialized player the first
\* ticket after the initial one.
TicketResetOnInitialized(ticket) == SB_PLAYER_INITIAL_TICKET + 1

\* OnPlayerStatus, kSbPlayerStateInitialized: the ticket leaves the initial
\* value and is kept otherwise.
TicketAfterInitialized(ticket) ==
  IF ticket = SB_PLAYER_INITIAL_TICKET THEN ticket + 1 ELSE ticket

OnPlayerStatus ==
  /\ NextTaskIs("OnPlayerStatus")
  /\ task_queue' = Tail(task_queue)
  /\ LET player == Head(task_queue)[2]
         state == Head(task_queue)[3]
         ticket == Head(task_queue)[4]
     IN
     IF ~callback_helper_player_ \/ PlayerStatusIsStale(player, ticket)
       THEN /\ sp_calls' = <<Ran("OnPlayerStatus")>>
            /\ UNCHANGED <<ticket_, sb_ticket>>
       ELSE IF state = kSbPlayerStateInitialized
       THEN /\ ticket_' = TicketAfterInitialized(ticket_)
            /\ sb_ticket' = IF SbPlayerIsValid(player_) THEN ticket_' ELSE sb_ticket
            /\ sp_calls' =
                 <<Ran("OnPlayerStatus"),
                   Call("SbPlayerSeek2", <<preroll_timestamp_, ticket_'>>)>> \o
                 SetVolumeCalls(volume_) \o
                 <<Call("SbPlayerSetPlaybackRate", <<playback_rate_>>)>>
       ELSE /\ sp_calls' = <<Ran("OnPlayerStatus"),
                             Call("host_->OnPlayerStatus", <<state>>)>>
            /\ UNCHANGED <<ticket_, sb_ticket>>
  /\ UNCHANGED <<state_, player_, seek_pending_, preroll_timestamp_,
                 allow_resume_after_suspend_, decoder_buffer_cache_,
                 decoding_buffers_, clear_cache_posted_,
                 callback_helper_player_, spBounds,
                 spRates, spCreation, sb_created,
                 sb_held, replayed>>

\* A faulty OnPlayerError that takes the error of any player.
PlayerErrorNeverStale(player) == FALSE

\* OnPlayerError: the callback is for another player.
PlayerErrorIsStale(player) == player_ # player

OnPlayerError ==
  /\ NextTaskIs("OnPlayerError")
  /\ task_queue' = Tail(task_queue)
  /\ sp_calls' =
       IF ~callback_helper_player_ \/ PlayerErrorIsStale(Head(task_queue)[2])
         THEN <<Ran("OnPlayerError")>>
         ELSE <<Ran("OnPlayerError"), Call("host_->OnPlayerError", <<>>)>>
  /\ UNCHANGED <<spFields, sb_created, sb_ticket, sb_held,
                 replayed>>

\* OnDeallocateSample: the count of a sample's address after the native
\* player gave one reference back; at 0 the entry is erased.
CountAfterDeallocate(count) == IF count = 0 THEN 0 ELSE count - 1

OnDeallocateSample ==
  /\ NextTaskIs("OnDeallocateSample")
  /\ task_queue' = Tail(task_queue)
  /\ decoding_buffers_' =
       IF ~callback_helper_player_
         THEN decoding_buffers_
         ELSE [decoding_buffers_ EXCEPT
                 ![Head(task_queue)[3]] = CountAfterDeallocate(@)]
  /\ sp_calls' = <<Ran("OnDeallocateSample")>>
  /\ UNCHANGED <<state_, player_, ticket_, seek_pending_, preroll_timestamp_,
                 allow_resume_after_suspend_, decoder_buffer_cache_,
                 clear_cache_posted_, callback_helper_player_, spBounds,
                 spRates,
                 spCreation, sb_created, sb_ticket, sb_held, replayed>>

(***************************************************************************)
(* The native player: its callbacks come on its own threads and post the   *)
(* bound callback to task_runner_.                                         *)
(***************************************************************************)
\* The player that SbPlayerCreate handed out and nobody destroyed yet.
SbPlayerIsLive == callback_helper_player_ /\ SbPlayerIsValid(player_)

HostFields ==
  <<spFields, sb_created, sb_held, replayed>>

\* DecoderStatusCB(player, context, type, kSbPlayerDecoderStateNeedsData,
\* ticket).
DecoderStatusCB(type) ==
  /\ SbPlayerIsLive
  /\ Len(task_queue) < MaxQueue
  /\ task_queue' =
       Append(task_queue, Task("OnDecoderStatus", player_, type, sb_ticket))
  /\ sp_calls' = <<>>
  /\ UNCHANGED <<HostFields, sb_ticket>>

\* PlayerStatusCB(player, context, state, ticket): kSbPlayerStateInitialized
\* with the initial ticket, before the player's first seek; the later states
\* with the ticket of the seek they belong to.
PlayerStatusCB(state) ==
  /\ SbPlayerIsLive
  /\ Len(task_queue) < MaxQueue
  /\ (state = kSbPlayerStateInitialized) <=>
       (sb_ticket = SB_PLAYER_INITIAL_TICKET)
  /\ task_queue' =
       Append(task_queue, Task("OnPlayerStatus", player_, state, sb_ticket))
  /\ sp_calls' = <<>>
  /\ UNCHANGED <<HostFields, sb_ticket>>

\* PlayerErrorCB(player, context, error, message): the live player reports
\* an error, or the native layer reports one with kSbPlayerInvalid.
PlayerErrorCB(player) ==
  /\ callback_helper_player_
  /\ player = kSbPlayerInvalid \/ (SbPlayerIsLive /\ player = player_)
  /\ IF PlayerErrorCBOutcome(player, is_creating_player_) = "captured"
       THEN /\ player_creation_error_message_' = CreationMessage
            /\ UNCHANGED task_queue
       ELSE /\ Len(task_queue) < MaxQueue
            /\ task_queue' =
                 Append(task_queue,
                        Task("OnPlayerError", player, "kSbPlayerErrorDecode",
                             0))
            /\ UNCHANGED player_creation_error_message_
  /\ sp_calls' = <<>>
  /\ UNCHANGED <<state_, player_, ticket_, seek_pending_, preroll_timestamp_,
                 allow_resume_after_suspend_, decoder_buffer_cache_,
                 decoding_buffers_, clear_cache_posted_,
                 callback_helper_player_, spBounds,
                 spRates, is_creating_player_,
                 sb_created, sb_ticket, sb_held, replayed>>

\* DeallocateSampleCB(player, context, sample_buffer): a player, live or
\* being destroyed, gives back a sample it holds.  The callback is bound
\* without the player.
DeallocateSampleCB(sample_buffer) ==
  /\ BagIn(sample_buffer, sb_held)
  /\ Len(task_queue) < MaxQueue
  /\ sb_held' = sb_held (-) SetToBag({sample_buffer})
  /\ task_queue' =
       Append(task_queue,
              Task("OnDeallocateSample", kSbPlayerInvalid, sample_buffer, 0))
  /\ sp_calls' = <<>>
  /\ UNCHANGED <<spFields, sb_created, sb_ticket, replayed>>

NextSP ==
  \/ \E type \in Tracks : \E buffer \in NewBuffers(type) :
       WriteBuffer(type, buffer) /\ UNCHANGED <<sbVars, lkVars>>
  \/ PrepareForSeek /\ UNCHANGED <<sbVars, lkVars>>
  \/ \E time \in Stamps : Seek(time) /\ UNCHANGED <<sbVars, lkVars>>
  \/ \E media_time \in Stamps : Suspend(media_time) /\ UNCHANGED <<sbVars, lkVars>>
  \/ \E created \in BOOLEAN : Resume(created, FALSE) /\ UNCHANGED <<sbVars, lkVars>>
  \/ \E media_time \in Stamps :
       ClearDecoderBufferCache(media_time) /\ UNCHANGED <<sbVars, lkVars>>
  \/ StarboardPlayerDestructor /\ UNCHANGED <<sbVars, lkVars>>
  \/ OnDecoderStatus /\ UNCHANGED <<sbVars, lkVars>>
  \/ OnPlayerStatus /\ UNCHANGED <<sbVars, lkVars>>
  \/ OnPlayerError /\ UNCHANGED <<sbVars, lkVars>>
  \/ OnDeallocateSample /\ UNCHANGED <<sbVars, lkVars>>
  \/ \E type \in {"kSbMediaTypeAudio", "kSbMediaTypeVideo"} :
       DecoderStatusCB(type) /\ UNCHANGED <<sbVars, lkVars>>
  \/ \E state \in {kSbPlayerStateInitialized, kSbPlayerStatePresenting} :
       PlayerStatusCB(state) /\ UNCHANGED <<sbVars, lkVars>>
  \/ PlayerErrorCB(player_) /\ UNCHANGED <<sbVars, lkVars>>
  \/ \E sample_buffer \in Addrs :
       DeallocateSampleCB(sample_buffer) /\ UNCHANGED <<sbVars, lkVars>>

\* The media times SbPlayerGetInfo2 reports under SpecTR.
MediaTimes == 0 .. MaxMediaTime

\* The steps of the specification SpecTR: the decoder buffer cache with
\* samples of several timestamps, and its trimming.
NextTR ==
  \/ \E type \in Tracks : \E buffer \in TimedBuffers(type) :
       WriteBuffer(type, buffer) /\ UNCHANGED <<sbVars, lkVars>>
  \/ \E media_time \in MediaTimes : Suspend(media_time) /\ UNCHANGED <<sbVars, lkVars>>
  \/ \E created \in BOOLEAN : Resume(created, FALSE) /\ UNCHANGED <<sbVars, lkVars>>
  \/ \E media_time \in MediaTimes :
       ClearDecoderBufferCache(media_time) /\ UNCHANGED <<sbVars, lkVars>>
  \/ OnDeallocateSample /\ UNCHANGED <<sbVars, lkVars>>
  \/ \E sample_buffer \in Addrs :
       DeallocateSampleCB(sample_buffer) /\ UNCHANGED <<sbVars, lkVars>>

\* The steps of the specification SpecCB: the four native callbacks and the
\* handlers posted for them, with the writes, suspends and resumes that
\* give them something to report.
NextCB ==
  \/ \E type \in Tracks : \E buffer \in NewBuffers(type) :
       WriteBuffer(type, buffer) /\ UNCHANGED <<sbVars, lkVars>>
  \/ \E media_time \in Stamps : Suspend(media_time) /\ UNCHANGED <<sbVars, lkVars>>
  \/ \E created \in BOOLEAN, creation_error \in BOOLEAN :
       Resume(created, creation_error) /\ UNCHANGED <<sbVars, lkVars>>
  \/ PrepareForSeek /\ UNCHANGED <<sbVars, lkVars>>
  \/ OnDecoderStatus /\ UNCHANGED <<sbVars, lkVars>>
  \/ OnPlayerStatus /\ UNCHANGED <<sbVars, lkVars>>
  \/ OnPlayerError /\ UNCHANGED <<sbVars, lkVars>>
  \/ OnDeallocateSample /\ UNCHANGED <<sbVars, lkVars>>
  \/ \E type \in {"kSbMediaTypeAudio", "kSbMediaTypeVideo"} :
       DecoderStatusCB(type) /\ UNCHANGED <<sbVars, lkVars>>
  \/ \E state \in {kSbPlayerStateInitialized, kSbPlayerStatePresenting} :
       PlayerStatusCB(state) /\ UNCHANGED <<sbVars, lkVars>>
  \/ \E player \in {player_, kSbPlayerInvalid} :
       PlayerErrorCB(player) /\ UNCHANGED <<sbVars, lkVars>>
  \/ \E sample_buffer \in Addrs :
       DeallocateSampleCB(sample_buffer) /\ UNCHANGED <<sbVars, lkVars>>

\* The task runner runs every task posted to it.
FairnessPL == WF_vars(OnPlayerError /\ UNCHANGED <<sbVars, lkVars>>)

\* The steps of the specification SpecRP: writing, suspending, resuming
\* and seeking, and the native player's requests for data and reports of
\* its state.
NextRP ==
  \/ \E type \in Tracks : \E buffer \in NewBuffers(type) :
       WriteBuffer(type, buffer) /\ UNCHANGED <<sbVars, lkVars>>
  \/ \E time \in Stamps : Seek(time) /\ UNCHANGED <<sbVars, lkVars>>
  \/ \E media_time \in Stamps : Suspend(media_time) /\ UNCHANGED <<sbVars, lkVars>>
  \/ \E created \in BOOLEAN : Resume(created, FALSE) /\ UNCHANGED <<sbVars, lkVars>>
  \/ OnDecoderStatus /\ UNCHANGED <<sbVars, lkVars>>
  \/ OnPlayerStatus /\ UNCHANGED <<sbVars, lkVars>>
  \/ \E type \in {"kSbMediaTypeAudio", "kSbMediaTypeVideo"} :
       DecoderStatusCB(type) /\ UNCHANGED <<sbVars, lkVars>>
  \/ \E state \in {kSbPlayerStateInitialized, kSbPlayerStatePresenting} :
       PlayerStatusCB(state) /\ UNCHANGED <<sbVars, lkVars>>

\* The task runner runs every task posted to it; a native player that is
\* not destroyed reports its initialization and goes on asking for data.
FairnessRP ==
  /\ WF_vars(OnDecoderStatus /\ UNCHANGED <<sbVars, lkVars>>)
  /\ WF_vars(OnPlayerStatus /\ UNCHANGED <<sbVars, lkVars>>)
  /\ SF_vars(\E type \in {"kSbMediaTypeAudio", "kSbMediaTypeVideo"} :
               DecoderStatusCB(type) /\ UNCHANGED <<sbVars, lkVars>>)
  /\ SF_vars(PlayerStatusCB(kSbPlayerStateInitialized) /\ UNCHANGED <<sbVars, lkVars>>)

\* The bounds SetBounds is called with.
ZIndexes == {0}
Rects == 1 .. MaxRect

\* The steps of the specification SpecPL: the life cycle of the native
\* player with the bounds and the errors of the native layer.
NextPL ==
  \/ \E type \in Tracks : \E buffer \in NewBuffers(type) :
       WriteBuffer(type, buffer) /\ UNCHANGED <<sbVars, lkVars>>
  \/ \E time \in Stamps : Seek(time) /\ UNCHANGED <<sbVars, lkVars>>
  \/ \E media_time \in Stamps : Suspend(media_time) /\ UNCHANGED <<sbVars, lkVars>>
  \/ \E created \in BOOLEAN, creation_error \in BOOLEAN :
       Resume(created, creation_error) /\ UNCHANGED <<sbVars, lkVars>>
  \/ \E z_index \in ZIndexes, rect \in Rects :
       SetBounds(z_index, rect) /\ UNCHANGED <<sbVars, lkVars>>
  \/ \E player \in {player_, kSbPlayerInvalid} :
       PlayerErrorCB(player) /\ UNCHANGED <<sbVars, lkVars>>
  \/ OnPlayerError /\ UNCHANGED <<sbVars, lkVars>>

(***************************************************************************)
(* lock_: Suspend and Resume on the task runner, SetBounds and GetInfo on  *)
(* another thread, each operation in the steps between which the other     *)
(* thread can run.                                                         *)
(***************************************************************************)
\* What no step below changes.
lkKept ==
  <<ticket_, seek_pending_, allow_resume_after_suspend_, decoding_buffers_,
    clear_cache_posted_, callback_helper_player_,
    player_creation_error_message_, spRates, sb_ticket, sb_held, task_queue,
    replayed>>

\* The thread goes to a place of an operation.
GoTo(thread, place) == position' = [position EXCEPT ![thread] = place]

\* base::AutoLock auto_lock(lock_): the thread waits until lock_ is free and
\* takes it.
Acquire(thread) == lock_ = kLockFree /\ lock_' = thread

\* The end of the scope of the AutoLock.
Release(thread) == lock_ = thread /\ lock_' = kLockFree

\* Suspend, up to the AutoLock.
SuspendBegin ==
  /\ callback_helper_player_
  /\ position["task_runner"] = kIdle
  /\ IF state_ = kSuspended
       THEN /\ sp_calls' = <<Ran("Suspend")>>
            /\ UNCHANGED position
       ELSE /\ SbPlayerIsValid(player_)
            /\ sp_calls' =
                 <<Ran("Suspend"),
                   Call("SbPlayerSetPlaybackRate", <<0>>),
                   Call("set_bounds_helper_->SetPlayer", <<"NULL">>)>>
            /\ GoTo("task_runner", "Suspend: AutoLock")
  /\ UNCHANGED <<state_, player_, preroll_timestamp_, decoder_buffer_cache_,
                 spBounds, is_creating_player_, sb_created, lock_, lkKept>>

\* Suspend takes lock_.
SuspendAcquire ==
  /\ position["task_runner"] = "Suspend: AutoLock"
  /\ Acquire("task_runner")
  /\ GoTo("task_runner", "Suspend: GetInfo_Locked")
  /\ sp_calls' = <<Ran("Suspend")>>
  /\ UNCHANGED <<state_, player_, preroll_timestamp_, decoder_buffer_cache_,
                 spBounds, is_creating_player_, sb_created, lkKept>>

\* Suspend, holding lock_: GetInfo_Locked asks the player, which
\* state_ tells to be there; then state_ = kSuspended and the decode target
\* provider is reset.
SuspendGetInfo(media_time) ==
  /\ position["task_runner"] = "Suspend: GetInfo_Locked"
  /\ lock_ = "task_runner"
  /\ SbPlayerIsValid(player_)
  /\ preroll_timestamp_' = media_time
  /\ state_' = StateAfterSuspend
  /\ sp_calls' =
       <<Ran("Suspend"),
         Call("SbPlayerGetInfo2", <<>>),
         Call("decode_target_provider_->SetOutputMode",
              <<"kOutputModeInvalid">>),
         Call("decode_target_provider_->ResetGetCurrentSbDecodeTargetFunction",
              <<>>)>>
  /\ GoTo("task_runner", "Suspend: SbPlayerDestroy")
  /\ UNCHANGED <<player_, decoder_buffer_cache_, spBounds,
                 is_creating_player_, sb_created, lock_, lkKept>>

\* Suspend, holding lock_: the player is destroyed and player_ set to
\* kSbPlayerInvalid; the AutoLock ends with Suspend.
SuspendDestroy ==
  /\ position["task_runner"] = "Suspend: SbPlayerDestroy"
  /\ sp_calls' = <<Ran("Suspend"), Call("SbPlayerDestroy", <<>>)>>
  /\ player_' = kSbPlayerInvalid
  /\ Release("task_runner")
  /\ GoTo("task_runner", kIdle)
  /\ UNCHANGED <<state_, preroll_timestamp_, decoder_buffer_cache_, spBounds,
                 is_creating_player_, sb_created, lkKept>>

\* Resume, up to SbPlayerCreate in CreatePlayer.
ResumeBegin ==
  /\ callback_helper_player_
  /\ position["task_runner"] = kIdle
  /\ sp_calls' = <<Ran("Resume")>>
  /\ IF state_ # kSuspended
       THEN /\ SbPlayerIsValid(player_)
            /\ UNCHANGED <<decoder_buffer_cache_, is_creating_player_,
                           position>>
       ELSE /\ decoder_buffer_cache_' = CacheAfterResume
            /\ is_creating_player_' = TRUE
            /\ GoTo("task_runner", "CreatePlayer: SbPlayerCreate")
  /\ UNCHANGED <<state_, player_, preroll_timestamp_, spBounds, sb_created,
                 lock_, lkKept>>

\* CreatePlayer: SbPlayerCreate, which hands out a player or none, and what
\* follows up to the AutoLock.
CreatePlayerCreate(created) ==
  /\ position["task_runner"] = "CreatePlayer: SbPlayerCreate"
  /\ is_creating_player_' = FALSE
  /\ IF created
       THEN /\ sb_created < MaxPlayers
            /\ sb_created' = sb_created + 1
            /\ player_' = sb_created'
            /\ sp_calls' =
                 <<Ran("Resume"),
                   Call("SbPlayerCreate", <<>>),
                   Call("set_bounds_helper_->SetPlayer", <<"this">>)>>
            /\ GoTo("task_runner", "CreatePlayer: AutoLock")
       ELSE /\ player_' = kSbPlayerInvalid
            /\ sp_calls' = <<Ran("Resume"), Call("SbPlayerCreate", <<>>)>>
            /\ GoTo("task_runner", kIdle)
            /\ UNCHANGED sb_created
  /\ UNCHANGED <<state_, preroll_timestamp_, decoder_buffer_cache_, spBounds,
                 lock_, lkKept>>

\* CreatePlayer takes lock_.
CreatePlayerAcquire ==
  /\ position["task_runner"] = "CreatePlayer: AutoLock"
  /\ Acquire("task_runner")
  /\ GoTo("task_runner", "CreatePlayer: UpdateBounds_Locked")
  /\ sp_calls' = <<Ran("Resume")>>
  /\ UNCHANGED <<state_, player_, preroll_timestamp_, decoder_buffer_cache_,
                 spBounds, is_creating_player_, sb_created, lkKept>>

\* CreatePlayer, holding lock_: UpdateBounds_Locked; the AutoLock ends with
\* CreatePlayer.
CreatePlayerUpdateBounds ==
  /\ position["task_runner"] = "CreatePlayer: UpdateBounds_Locked"
  /\ SbPlayerIsValid(player_)
  /\ sp_calls' =
       <<Ran("Resume")>> \o
       UpdateBoundsCalls(set_bounds_z_index_, set_bounds_rect_)
  /\ Release("task_runner")
  /\ GoTo("task_runner", "Resume: AutoLock")
  /\ UNCHANGED <<state_, player_, preroll_timestamp_, decoder_buffer_cache_,
                 spBounds, is_creating_player_, sb_created, lkKept>>

\* Resume, back from CreatePlayer with a player, takes lock_.
ResumeAcquire ==
  /\ position["task_runner"] = "Resume: AutoLock"
  /\ Acquire("task_runner")
  /\ GoTo("task_runner", "Resume: UpdateBounds_Locked")
  /\ sp_calls' = <<Ran("Resume")>>
  /\ UNCHANGED <<state_, player_, preroll_timestamp_, decoder_buffer_cache_,
                 spBounds, is_creating_player_, sb_created, lkKept>>

\* Resume, holding lock_: state_ = kResuming and UpdateBounds_Locked.
ResumeUpdateBounds ==
  /\ position["task_runner"] = "Resume: UpdateBounds_Locked"
  /\ SbPlayerIsValid(player_)
  /\ state_' = kResuming
  /\ sp_calls' =
       <<Ran("Resume")>> \o
       UpdateBoundsCalls(set_bounds_z_index_, set_bounds_rect_)
  /\ Release("task_runner")
  /\ GoTo("task_runner", kIdle)
  /\ UNCHANGED <<player_, preroll_timestamp_, decoder_buffer_cache_,
                 spBounds, is_creating_player_, sb_created, lkKept>>

\* SetBounds takes lock_.
SetBoundsAcquire ==
  /\ callback_helper_player_
  /\ position["caller"] = kIdle
  /\ Acquire("caller")
  /\ GoTo("caller", "SetBounds: locked")
  /\ sp_calls' = <<Ran("SetBounds")>>
  /\ UNCHANGED <<state_, player_, preroll_timestamp_, decoder_buffer_cache_,
                 spBounds, is_creating_player_, sb_created, lkKept>>

\* SetBounds(z_index, rect), holding lock_: the bounds are stored and,
\* unless suspended, handed to the player by UpdateBounds_Locked, which
\* asserts a valid one.
SetBoundsLocked(z_index, rect) ==
  /\ position["caller"] = "SetBounds: locked"
  /\ set_bounds_z_index_' = <<z_index>>
  /\ set_bounds_rect_' = <<rect>>
  /\ IF state_ = kSuspended
       THEN sp_calls' = <<Ran("SetBounds")>>
       ELSE /\ SbPlayerIsValid(player_)
            /\ sp_calls' =
                 <<Ran("SetBounds")>> \o
                 UpdateBoundsCalls(set_bounds_z_index_', set_bounds_rect_')
  /\ Release("caller")
  /\ GoTo("caller", kIdle)
  /\ UNCHANGED <<state_, player_, preroll_timestamp_, decoder_buffer_cache_,
                 is_creating_player_, sb_created, lkKept>>

\* GetInfo takes lock_.
GetInfoAcquire ==
  /\ callback_helper_player_
  /\ position["caller"] = kIdle
  /\ Acquire("caller")
  /\ GoTo("caller", "GetInfo: locked")
  /\ sp_calls' = <<Ran("GetInfo")>>
  /\ UNCHANGED <<state_, player_, preroll_timestamp_, decoder_buffer_cache_,
                 spBounds, is_creating_player_, sb_created, lkKept>>

\* GetInfo, holding lock_: GetInfo_Locked hands out the cached values while
\* suspended and asks the player otherwise.
GetInfoLocked ==
  /\ position["caller"] = "GetInfo: locked"
  /\ state_ # kSuspended => SbPlayerIsValid(player_)
  /\ sp_calls' =
       IF state_ = kSuspended
         THEN <<Ran("GetInfo")>>
         ELSE <<Ran("GetInfo"), Call("SbPlayerGetInfo2", <<>>)>>
  /\ Release("caller")
  /\ GoTo("caller", kIdle)
  /\ UNCHANGED <<state_, player_, preroll_timestamp_, decoder_buffer_cache_,
                 spBounds, is_creating_player_, sb_created, lkKept>>

\* The steps of the specification SpecLK.
NextLK ==
  \/ SuspendBegin /\ UNCHANGED sbVars
  \/ SuspendAcquire /\ UNCHANGED sbVars
  \/ \E media_time \in Stamps : SuspendGetInfo(media_time) /\ UNCHANGED sbVars
  \/ SuspendDestroy /\ UNCHANGED sbVars
  \/ ResumeBegin /\ UNCHANGED sbVars
  \/ \E created \in BOOLEAN : CreatePlayerCreate(created) /\ UNCHANGED sbVars
  \/ CreatePlayerAcquire /\ UNCHANGED sbVars
  \/ CreatePlayerUpdateBounds /\ UNCHANGED sbVars
  \/ ResumeAcquire /\ UNCHANGED sbVars
  \/ ResumeUpdateBounds /\ UNCHANGED sbVars
  \/ SetBoundsAcquire /\ UNCHANGED sbVars
  \/ \E z_index \in ZIndexes, rect \in Rects :
       SetBoundsLocked(z_index, rect) /\ UNCHANGED sbVars
  \/ GetInfoAcquire /\ UNCHANGED sbVars
  \/ GetInfoLocked /\ UNCHANGED sbVars

\* The steps of the specification SpecOP: the public operations of the
\* controller in every state of it.
NextOP ==
  \/ \E type \in Tracks : \E buffer \in NewBuffers(type) :
       WriteBuffer(type, buffer) /\ UNCHANGED <<sbVars, lkVars>>
  \/ PrepareForSeek /\ UNCHANGED <<sbVars, lkVars>>
  \/ \E time \in Stamps : Seek(time) /\ UNCHANGED <<sbVars, lkVars>>
  \/ \E volume \in Volumes : SetVolume(volume) /\ UNCHANGED <<sbVars, lkVars>>
  \/ \E playback_rate \in PlaybackRates :
       SetPlaybackRate(playback_rate) /\ UNCHANGED <<sbVars, lkVars>>
  \/ \E z_index \in ZIndexes, rect \in Rects :
       SetBounds(z_index, rect) /\ UNCHANGED <<sbVars, lkVars>>
  \/ GetInfo /\ UNCHANGED <<sbVars, lkVars>>
  \/ \E media_time \in Stamps : Suspend(media_time) /\ UNCHANGED <<sbVars, lkVars>>
  \/ \E created \in BOOLEAN : Resume(created, FALSE) /\ UNCHANGED <<sbVars, lkVars>>

\* The steps of the specification SpecST: seeks to several media times,
\* volume and playback rate, and the status callbacks of the players that
\* Suspend destroys and Resume creates.
NextST ==
  \/ PrepareForSeek /\ UNCHANGED <<sbVars, lkVars>>
  \/ \E time \in MediaTimes : Seek(time) /\ UNCHANGED <<sbVars, lkVars>>
  \/ \E volume \in Volumes : SetVolume(volume) /\ UNCHANGED <<sbVars, lkVars>>
  \/ \E playback_rate \in PlaybackRates :
       SetPlaybackRate(playback_rate) /\ UNCHANGED <<sbVars, lkVars>>
  \/ \E media_time \in MediaTimes :
       Suspend(media_time) /\ UNCHANGED <<sbVars, lkVars>>
  \/ \E created \in BOOLEAN :
       Resume(created, FALSE) /\ UNCHANGED <<sbVars, lkVars>>
  \/ \E state \in {kSbPlayerStateInitialized, kSbPlayerStatePresenting} :
       PlayerStatusCB(state) /\ UNCHANGED <<sbVars, lkVars>>
  \/ OnPlayerStatus /\ UNCHANGED <<sbVars, lkVars>>

\* The steps of the specification SpecSK: seeks to several media times
\* around Suspend, which finds the player at media time 0, and Resume, with
\* the samples the pipeline writes and the callbacks of the players.
NextSK ==
  \/ \E type \in Tracks : \E buffer \in NewBuffers(type) :
       WriteBuffer(type, buffer) /\ UNCHANGED <<sbVars, lkVars>>
  \/ \E time \in MediaTimes : Seek(time) /\ UNCHANGED <<sbVars, lkVars>>
  \/ \E media_time \in Stamps :
       Suspend(media_time) /\ UNCHANGED <<sbVars, lkVars>>
  \/ \E created \in BOOLEAN :
       Resume(created, FALSE) /\ UNCHANGED <<sbVars, lkVars>>
  \/ \E state \in {kSbPlayerStateInitialized, kSbPlayerStatePresenting} :
       PlayerStatusCB(state) /\ UNCHANGED <<sbVars, lkVars>>
  \/ OnPlayerStatus /\ UNCHANGED <<sbVars, lkVars>>
  \/ \E type \in {"kSbMediaTypeAudio", "kSbMediaTypeVideo"} :
       DecoderStatusCB(type) /\ UNCHANGED <<sbVars, lkVars>>
  \/ OnDecoderStatus /\ UNCHANGED <<sbVars, lkVars>>

\* The steps of the specification SpecDA: the samples written to the
\* players that Suspend destroys and Resume creates, and their
\* deallocations.
NextDA ==
  \/ \E type \in Tracks : \E buffer \in NewBuffers(type) :
       WriteBuffer(type, buffer) /\ UNCHANGED <<sbVars, lkVars>>
  \/ \E time \in Stamps : Seek(time) /\ UNCHANGED <<sbVars, lkVars>>
  \/ \E media_time \in Stamps :
       Suspend(media_time) /\ UNCHANGED <<sbVars, lkVars>>
  \/ \E created \in BOOLEAN :
       Resume(created, FALSE) /\ UNCHANGED <<sbVars, lkVars>>
  \/ \E type \in {"kSbMediaTypeAudio", "kSbMediaTypeVideo"} :
       DecoderStatusCB(type) /\ UNCHANGED <<sbVars, lkVars>>
  \/ OnDecoderStatus /\ UNCHANGED <<sbVars, lkVars>>
  \/ \E sample_buffer \in Addrs :
       DeallocateSampleCB(sample_buffer) /\ UNCHANGED <<sbVars, lkVars>>
  \/ OnDeallocateSample /\ UNCHANGED <<sbVars, lkVars>>

\* The task runner runs every task posted to it, and the native layer
\* reports the deallocation of every sample it was given, those of a
\* destroyed player included.
FairnessDA ==
  /\ WF_vars(OnDecoderStatus /\ UNCHANGED <<sbVars, lkVars>>)
  /\ WF_vars(OnDeallocateSample /\ UNCHANGED <<sbVars, lkVars>>)
  /\ \A sample_buffer \in Addrs :
       SF_vars(DeallocateSampleCB(sample_buffer) /\
               UNCHANGED <<sbVars, lkVars>>)

(***************************************************************************)
(* StarboardPlayer: the callbacks' filters.                                *)
(***************************************************************************)
\* A step in which the task runner runs the callback at the head of its
\* queue.
CallbackRuns == task_queue # <<>> /\ task_queue' = Tail(task_queue)

\* The handler of the step did nothing: no field changed, and it made no
\* native call and no host notification.
Discarded ==
  /\ UNCHANGED <<spFields, replayed>>
  /\ Len(sp_calls') = 1

\* The tag of a posted callback differs from the controller's: the handle
\* or the ticket, for the callbacks that carry them.  A player-error
\* callback carries no ticket.  A sample-deallocation callback is bound
\* with neither; it comes from a player that is not the current one whenever
\* the controller has no player.
TagMismatch(task) ==
  IF task[1] = "OnDeallocateSample" THEN ~SbPlayerIsValid(player_)
  ELSE IF task[1] = "OnPlayerError" THEN task[2] # player_
  ELSE task[2] # player_ \/ task[4] # ticket_

\* C2 as stated: a callback of any of the four kinds whose ticket is not
\* the current ticket, or whose handle is not the current handle, is
\* discarded: the controller's state stays as it is, and there is no host
\* notification and no native call.
C2_MismatchedCallbackDiscarded ==
  [][(CallbackRuns /\ callback_helper_player_ /\
      TagMismatch(Head(task_queue))) => Discarded]_vars

\* C2, amended: a decoder-status callback is discarded when its handle or
\* its ticket is not the current one; a player-status callback when its
\* handle is not the current one or its ticket is neither the current nor
\* the initial ticket; a player-error callback when its handle is not the
\* current one.  A sample-deallocation callback is never discarded: it
\* takes one reference off its sample's entry.
C2_StaleCallbackDiscarded ==
  [][(CallbackRuns /\ callback_helper_player_) =>
       LET task == Head(task_queue)
       IN /\ (task[1] = "OnDecoderStatus" /\
              (task[2] # player_ \/ task[4] # ticket_)) => Discarded
          /\ (task[1] = "OnPlayerStatus" /\
              (task[2] # player_ \/
               (task[4] # ticket_ /\ task[4] # SB_PLAYER_INITIAL_TICKET)))
               => Discarded
          /\ (task[1] = "OnPlayerError" /\ task[2] # player_) => Discarded
          /\ task[1] = "OnDeallocateSample" =>
               /\ decoding_buffers_[task[3]] > 0
               /\ decoding_buffers_' =
                    [decoding_buffers_ EXCEPT ![task[3]] = @ - 1]]_vars

\* After two ticket increments the only player ever created reported a
\* decoder status under an older ticket, and OnDecoderStatus did nothing.
C2_Witness ==
  /\ callback_helper_player_
  /\ sp_calls = <<Ran("OnDecoderStatus")>>
  /\ sb_created = 1
  /\ player_ = 1
  /\ ticket_ = 2

(***************************************************************************)
(* StarboardPlayer: the handle and the state.                              *)
(***************************************************************************)
\* C3 as stated: while the controller is not destroyed, its handle is
\* invalid exactly when its state is kSuspended.
C3_HandleInvalidExactlyWhenSuspended ==
  callback_helper_player_ =>
    (~SbPlayerIsValid(player_) <=> state_ = kSuspended)

(***************************************************************************)
(* StarboardPlayer: the in-flight sample table.                            *)
(***************************************************************************)
\* How many posted OnDeallocateSample callbacks of an address the task
\* runner holds.
RECURSIVE PendingDeallocations(_, _)
PendingDeallocations(queue, a) ==
  IF queue = <<>> THEN 0
  ELSE (IF Head(queue)[1] = "OnDeallocateSample" /\ Head(queue)[3] = a
          THEN 1 ELSE 0) + PendingDeallocations(Tail(queue), a)

\* C4: the entry of a sample's address leaves decoding_buffers_ only in an
\* OnDeallocateSample of that address that finds the count at 1, when no
\* player holds a dispatch of the address any more and no other deallocation
\* of it is on its way; until then the count is at least the number of
\* dispatches not yet reported back.  A dispatched sample gets one more
\* reference, and an end-of-stream marker is forwarded with the table left
\* as it is.
C4_SampleReleasedAtCountZero ==
  [][callback_helper_player_' =>
       /\ \A a \in Addrs :
            /\ decoding_buffers_'[a] >=
                 CopiesOf(a, sb_held') + PendingDeallocations(task_queue', a)
            /\ (decoding_buffers_[a] > 0 /\ decoding_buffers_'[a] = 0) =>
                 /\ CallbackRuns
                 /\ Head(task_queue)[1] = "OnDeallocateSample"
                 /\ Head(task_queue)[3] = a
                 /\ decoding_buffers_[a] = 1
                 /\ CopiesOf(a, sb_held) = 0
                 /\ PendingDeallocations(task_queue', a) = 0
       /\ Called(sp_calls', "SbPlayerWriteSample2") =>
            \E a \in Addrs :
              decoding_buffers_' = [decoding_buffers_ EXCEPT ![a] = @ + 1]
       /\ Called(sp_calls', "SbPlayerWriteEndOfStream") =>
            UNCHANGED decoding_buffers_]_vars

\* A sample was dispatched to two players; the first reported its
\* deallocation, which OnDeallocateSample took off the count, and the entry
\* stays for the dispatch the second player still holds.
C4_Witness ==
  /\ callback_helper_player_
  /\ sp_calls = <<Ran("OnDeallocateSample")>>
  /\ sb_created = 2
  /\ decoding_buffers_[1] = 1
  /\ decoding_buffers_[2] = 0
  /\ CopiesOf(1, sb_held) = 1
  /\ decoder_buffer_cache_.buffers["AUDIO"] = <<Buffer(1, 0)>>
  /\ decoder_buffer_cache_.buffers["VIDEO"] = <<>>

(***************************************************************************)
(* StarboardPlayer: the replay after Resume.                               *)
(***************************************************************************)
\* The samples of buffers that are not older than time, in order.
RECURSIVE NotOlder(_, _)
NotOlder(buffers, time) ==
  IF buffers = <<>> THEN <<>>
  ELSE (IF Head(buffers).end_of_stream \/ Head(buffers).timestamp >= time
          THEN <<Head(buffers)>> ELSE <<>>) \o NotOlder(Tail(buffers), time)

IsPrefix(s, t) == Len(s) <= Len(t) /\ s = SubSeq(t, 1, Len(s))

\* C5: while the controller is suspended the cache keeps, per track and in
\* their order, the samples not older than the media time Suspend read;
\* Resume, when it creates a player, keeps the cached samples and puts the
\* replay cursor of both tracks at the start; while the state is kResuming
\* the samples written to the new player are, per track, the cached samples
\* up to the cursor, in their order, none left out and none twice; and
\* OnDecoderStatus leaves kResuming for kPlaying only when every cached
\* sample of both tracks has been written so.
C5_ResumeReplaysCache ==
  [][/\ (state_ = kSuspended /\ state_' = kSuspended /\
         ~(sp_calls' # <<>> /\ Handler(sp_calls') = "Seek")) =>
          \A t \in Tracks :
            IsPrefix(NotOlder(decoder_buffer_cache_.buffers[t],
                              preroll_timestamp_),
                     NotOlder(decoder_buffer_cache_'.buffers[t],
                              preroll_timestamp_'))
     /\ (state_ = kSuspended /\ state_' = kResuming) =>
          /\ decoder_buffer_cache_'.buffers = decoder_buffer_cache_.buffers
          /\ decoder_buffer_cache_'.index = [t \in Tracks |-> 0]
          /\ replayed' = NoReplay
     /\ (state_ = kResuming /\ state_' = kResuming) =>
          \A t \in Tracks :
            /\ IsPrefix(decoder_buffer_cache_.buffers[t],
                        decoder_buffer_cache_'.buffers[t])
            /\ IsPrefix(replayed[t], replayed'[t])
            /\ replayed'[t] =
                 SubSeq(decoder_buffer_cache_'.buffers[t], 1,
                        decoder_buffer_cache_'.index[t])
     /\ (state_ = kResuming /\ state_' = kPlaying /\ CallbackRuns) =>
          /\ replayed = decoder_buffer_cache_.buffers
          /\ UNCHANGED decoder_buffer_cache_]_vars

\* The new player got the two samples cached for the audio track, in their
\* order, and nothing is left to replay.
C5_Witness ==
  /\ state_ = kResuming
  /\ Len(replayed["AUDIO"]) = 2
  /\ ~replayed["AUDIO"][1].end_of_stream
  /\ ~replayed["AUDIO"][2].end_of_stream
  /\ replayed = decoder_buffer_cache_.buffers

\* The track buffer and the controller as their constructors leave them.
(***************************************************************************)
(* StarboardPlayer: Suspend and Resume.                                    *)
(***************************************************************************)
\* A step of the handler named, run on the controller's task runner.
HandlerRan(name) == sp_calls' # <<>> /\ Handler(sp_calls') = name

\* Whether Suspend can be called in the current state.
SuspendIsLegal ==
  ENABLED (\E media_time \in Stamps : Suspend(media_time) /\ UNCHANGED <<sbVars, lkVars>>)

\* C22: Suspend can be called in every state of a controller that is not
\* destroyed.  In kSuspended it changes nothing and makes no call; in any
\* other state it sets the playback rate to zero, detaches the bounds
\* helper, reads counters and media time, invalidates the decode target
\* provider and destroys the player, in this order, and leaves the state
\* kSuspended and the handle invalid.
C22_SuspendFromAnyState ==
  [][/\ callback_helper_player_ => SuspendIsLegal
     /\ (HandlerRan("Suspend") /\ state_ = kSuspended)
          => /\ sp_calls' = <<Ran("Suspend")>>
             /\ UNCHANGED <<spFields, spNative, replayed>>
     /\ (HandlerRan("Suspend") /\ state_ # kSuspended)
          => /\ sp_calls' = <<Ran("Suspend")>> \o SuspendCalls
             /\ state_' = kSuspended
             /\ ~SbPlayerIsValid(player_')
             /\ preroll_timestamp_' \in Stamps]_vars

(***************************************************************************)
(* StarboardPlayer: the ticket.                                            *)
(***************************************************************************)
\* The posted callbacks that carry a ticket.
TicketedTasks(queue) ==
  {i \in 1 .. Len(queue) :
     queue[i][1] \in {"OnDecoderStatus", "OnPlayerStatus"}}

\* C25 as stated: every Seek and every PrepareForSeek, whatever the state,
\* adds one to the ticket.
C25_SeekAlwaysIncrementsTicket ==
  [][(HandlerRan("Seek") \/ HandlerRan("PrepareForSeek"))
       => ticket_' = ticket_ + 1]_vars

\* C25, amended: a Seek or PrepareForSeek in a state other than kSuspended
\* adds one to the ticket, so that every callback posted before carries a
\* ticket other than the current one; in kSuspended, where there is no
\* native player, both leave the ticket as it is.
C25_SeekIncrementsTicketUnlessSuspended ==
  [][(HandlerRan("Seek") \/ HandlerRan("PrepareForSeek"))
       => IF state_ = kSuspended
            THEN /\ ticket_' = ticket_
                 /\ ~SbPlayerIsValid(player_)
            ELSE /\ ticket_' = ticket_ + 1
                 /\ \A i \in TicketedTasks(task_queue) :
                      task_queue[i][4] # ticket_']_vars

\* Seek has raised the ticket to 2 while a decoder status that the current
\* player posted under an older ticket waits in the queue.
C25_Witness ==
  /\ sp_calls # <<>>
  /\ Handler(sp_calls) = "Seek"
  /\ ticket_ = 2
  /\ task_queue # <<>>
  /\ Head(task_queue)[1] = "OnDecoderStatus"
  /\ Head(task_queue)[2] = player_
  /\ Head(task_queue)[4] < ticket_

\* C26: as long as the controller is not destroyed, no step lowers the
\* ticket: it is kept or raised by Seek, PrepareForSeek, Suspend, Resume,
\* OnPlayerStatus and every other handler.
C26_TicketNeverDecreases ==
  [][callback_helper_player_' => ticket_' >= ticket_]_vars

\* The second player of a controller whose ticket is 2 has reported
\* kSbPlayerStateInitialized with the initial ticket, and the ticket is
\* still 2.
C26_Witness ==
  /\ callback_helper_player_
  /\ sp_calls # <<>>
  /\ Handler(sp_calls) = "OnPlayerStatus"
  /\ Called(sp_calls, "SbPlayerSeek2")
  /\ sb_created = 2
  /\ player_ = 2
  /\ ticket_ = 2

(***************************************************************************)
(* StarboardPlayer: WriteBuffer.                                           *)
(***************************************************************************)
\* The one native call that hands buffer to the player as a sample of the
\* track.
DispatchOf(type, buffer) ==
  <<Call(IF buffer.end_of_stream
           THEN "SbPlayerWriteEndOfStream" ELSE "SbPlayerWriteSample2",
         <<DemuxerStreamTypeToSbMediaType(type)>>)>>

\* What the native players hold once buffer has been handed to player_: a
\* valid player holds one more dispatch of a sample that has data.
HeldWith(buffer) ==
  IF buffer.end_of_stream \/ player_ = kSbPlayerInvalid THEN sb_held
  ELSE sb_held (+) SetToBag({buffer.data})

\* The dispatches the controller has on record once buffer has been handed
\* over: one more of a sample that has data.
RecordedWith(buffer) ==
  [a \in Addrs |->
     IF ~buffer.end_of_stream /\ a = buffer.data
       THEN decoding_buffers_[a] + 1 ELSE decoding_buffers_[a]]

\* C27: WriteBuffer(type, buffer) with allow_resume_after_suspend_ appends
\* the sample to the track's cached samples and leaves the other track's
\* alone; unless the state is kSuspended it then hands exactly one sample,
\* the one at the track's cursor, to the native player and moves the cursor
\* on; in kSuspended it makes no native call and moves no cursor.  Without
\* allow_resume_after_suspend_ it hands the sample itself to the native
\* player and leaves the cache as it is.
C27_WriteBuffer ==
  [][\A type \in Tracks : \A buffer \in NewBuffers(type) :
       (HandlerRan("WriteBuffer") /\ WriteBuffer(type, buffer))
         => IF allow_resume_after_suspend_
              THEN /\ decoder_buffer_cache_'.buffers =
                        [decoder_buffer_cache_.buffers EXCEPT
                           ![type] = Append(@, buffer)]
                   /\ IF state_ # kSuspended
                        THEN LET next ==
                                   decoder_buffer_cache_'.buffers[type]
                                     [decoder_buffer_cache_.index[type] + 1]
                             IN /\ Tail(sp_calls') = DispatchOf(type, next)
                                /\ sb_held' = HeldWith(next)
                                /\ decoding_buffers_' = RecordedWith(next)
                                /\ decoder_buffer_cache_'.index =
                                     [decoder_buffer_cache_.index EXCEPT
                                        ![type] = @ + 1]
                        ELSE /\ Tail(sp_calls') = <<>>
                             /\ UNCHANGED <<sb_held, decoding_buffers_>>
                             /\ decoder_buffer_cache_'.index =
                                  decoder_buffer_cache_.index
              ELSE /\ Tail(sp_calls') = DispatchOf(type, buffer)
                   /\ sb_held' = HeldWith(buffer)
                   /\ decoding_buffers_' = RecordedWith(buffer)
                   /\ UNCHANGED decoder_buffer_cache_]_vars

\* WriteBuffer has run while kResuming: the audio track caches two samples
\* and the one handed to the native player is the first of them, not the
\* one just written.
C27_Witness ==
  /\ sp_calls # <<>>
  /\ Handler(sp_calls) = "WriteBuffer"
  /\ allow_resume_after_suspend_
  /\ state_ = kResuming
  /\ Len(decoder_buffer_cache_.buffers["AUDIO"]) = 2
  /\ decoder_buffer_cache_.index["AUDIO"] = 1
  /\ Tail(sp_calls) =
       DispatchOf("AUDIO", decoder_buffer_cache_.buffers["AUDIO"][1])

(***************************************************************************)
(* StarboardPlayer: errors reported with kSbPlayerInvalid.                 *)
(***************************************************************************)
\* The task runner runs an OnPlayerError that was posted for
\* kSbPlayerInvalid.
InvalidPlayerErrorRuns ==
  /\ callback_helper_player_
  /\ NextTaskIs("OnPlayerError")
  /\ Head(task_queue)[2] = kSbPlayerInvalid
  /\ HandlerRan("OnPlayerError")

\* C30: an error that SbPlayerCreate reports for kSbPlayerInvalid while
\* Resume creates the player is stored in player_creation_error_message_
\* and nothing is posted for it; an error for kSbPlayerInvalid that was
\* reported while no player was created changes no field when its
\* OnPlayerError runs and is not handed to host_->OnPlayerError, whatever
\* the state.
C30_InvalidPlayerErrorNeverForwarded ==
  [][/\ \A created \in BOOLEAN :
          (HandlerRan("Resume") /\ state_ = kSuspended /\ Resume(created, TRUE))
            => /\ player_creation_error_message_' = CreationMessage
               /\ task_queue' = task_queue
               /\ ~Called(Tail(sp_calls'), "host_->OnPlayerError")
     /\ InvalidPlayerErrorRuns
          => /\ ~Called(Tail(sp_calls'), "host_->OnPlayerError")
             /\ UNCHANGED spFields]_vars

(***************************************************************************)
(* StarboardPlayer: the bounds.                                            *)
(***************************************************************************)
\* SetBounds can run in the state at hand without failing an assertion.
SetBoundsIsLegal ==
  ENABLED (\E z_index \in ZIndexes, rect \in Rects :
             SetBounds(z_index, rect) /\ UNCHANGED <<sbVars, lkVars>>)

\* The native call that applies the bounds.
SetBoundsCall(z_index, rect) == Call("SbPlayerSetBounds", <<z_index, rect>>)

\* What SetBounds and Resume do with the bounds, wherever they run.
BoundsStoredAndApplied ==
  /\ \A z_index \in ZIndexes, rect \in Rects :
       (HandlerRan("SetBounds") /\ SetBounds(z_index, rect))
         => /\ set_bounds_z_index_' = <<z_index>>
            /\ set_bounds_rect_' = <<rect>>
            /\ Tail(sp_calls') =
                 IF SbPlayerIsValid(player_)
                   THEN <<SetBoundsCall(z_index, rect)>> ELSE <<>>
            /\ state_ = kSuspended => Tail(sp_calls') = <<>>
  /\ ( /\ HandlerRan("Resume")
       /\ state_ = kSuspended
       /\ SbPlayerIsValid(player_')
       /\ set_bounds_rect_ # nullopt )
       => /\ sp_calls'[Len(sp_calls')] =
               SetBoundsCall(set_bounds_z_index_[1], set_bounds_rect_[1])
          /\ UNCHANGED spBounds
  /\ ( /\ HandlerRan("Resume")
       /\ ~SbPlayerIsValid(player_') )
       => ~Called(Tail(sp_calls'), "SbPlayerSetBounds")

\* C29: SetBounds can be called whenever the controller lives and stores
\* the bounds it is given; it hands them to the native player exactly when
\* player_ is valid and makes no native call in kSuspended; a Resume that
\* gets a player hands it the bounds stored last, and one that gets none
\* applies nothing.
C29_BoundsStoredAppliedWhenValid ==
  [][/\ callback_helper_player_ => SetBoundsIsLegal
     /\ BoundsStoredAndApplied]_vars

(***************************************************************************)
(* StarboardPlayer: Resume.                                                *)
(***************************************************************************)
\* C23: Resume in a state other than kSuspended changes neither state_ nor
\* player_ and does not call SbPlayerCreate.  Resume in kSuspended puts the
\* replay cursor of both tracks back to the first cached sample, keeps the
\* cached samples and calls SbPlayerCreate; if that hands out a player,
\* player_ is valid, state_ is kResuming and the stored bounds, if any, are
\* applied to the player; if it does not, state_ stays kSuspended, player_
\* stays invalid and no bounds are applied.
C23_Resume ==
  [][\A created \in BOOLEAN, creation_error \in BOOLEAN :
       (HandlerRan("Resume") /\ Resume(created, creation_error))
         => IF state_ # kSuspended
              THEN /\ UNCHANGED <<state_, player_, sb_created>>
                   /\ Tail(sp_calls') = <<>>
              ELSE /\ decoder_buffer_cache_'.index = [t \in Tracks |-> 0]
                   /\ decoder_buffer_cache_'.buffers =
                        decoder_buffer_cache_.buffers
                   /\ sp_calls'[2] = Call("SbPlayerCreate", <<>>)
                   /\ state_' = kResuming <=> created
                   /\ state_' = kSuspended <=> ~created
                   /\ SbPlayerIsValid(player_') <=> created
                   /\ IF created /\ set_bounds_rect_ # nullopt
                        THEN sp_calls'[Len(sp_calls')] =
                               SetBoundsCall(set_bounds_z_index_[1],
                                             set_bounds_rect_[1])
                        ELSE ~Called(Tail(sp_calls'), "SbPlayerSetBounds")]_vars

\* Resume has got a player while bounds were stored and a sample cached:
\* the state is kResuming, the audio cursor is at the first cached sample
\* and the last call applies the bounds.
C23_Witness ==
  /\ sp_calls # <<>>
  /\ Handler(sp_calls) = "Resume"
  /\ state_ = kResuming
  /\ SbPlayerIsValid(player_)
  /\ decoder_buffer_cache_.buffers["AUDIO"] # <<>>
  /\ decoder_buffer_cache_.index["AUDIO"] = 0
  /\ set_bounds_rect_ = <<2>>
  /\ sp_calls[Len(sp_calls)] = SetBoundsCall(0, 2)

(***************************************************************************)
(* StarboardPlayer: trimming the decoder buffer cache.                     *)
(***************************************************************************)
\* now is before with some leading entries taken away, each of them a
\* sample strictly older than media_time.
OnlyOlderDiscarded(before, now, media_time) ==
  \E n \in 0 .. Len(before) :
    /\ now = SubSeq(before, n + 1, Len(before))
    /\ \A i \in 1 .. n :
         ~before[i].end_of_stream /\ before[i].timestamp < media_time

\* C28: the periodic ClearDecoderBufferCache is posted exactly for the
\* controllers whose first SbPlayerCreate handed out a player, and stays
\* posted after every run.  A run in kResuming leaves the cache as it is;
\* a run in another state, with media_time the media time last reported
\* (preroll_timestamp_ in kSuspended), takes away of each track only
\* leading samples strictly older than media_time: every sample at or after
\* media_time is kept.
C28_CacheTrimming ==
  /\ [](callback_helper_player_ => (clear_cache_posted_ <=> sb_created > 0))
  /\ [][\A media_time \in MediaTimes :
          (HandlerRan("ClearDecoderBufferCache") /\
           ClearDecoderBufferCache(media_time))
            => /\ clear_cache_posted_'
               /\ state_ = kSuspended => media_time = preroll_timestamp_
               /\ IF state_ = kResuming
                    THEN UNCHANGED decoder_buffer_cache_
                    ELSE \A t \in Tracks :
                           OnlyOlderDiscarded(
                             decoder_buffer_cache_.buffers[t],
                             decoder_buffer_cache_'.buffers[t],
                             media_time)]_vars

\* ClearDecoderBufferCache has run while playing and has taken the audio
\* sample of second 0 away: the cache begins with the sample of second 1.
C28_Witness ==
  /\ sp_calls # <<>>
  /\ Handler(sp_calls) = "ClearDecoderBufferCache"
  /\ Called(Tail(sp_calls), "SbPlayerGetInfo2")
  /\ state_ = kPlaying
  /\ decoder_buffer_cache_.buffers["AUDIO"] # <<>>
  /\ decoder_buffer_cache_.buffers["AUDIO"][1].timestamp = 1
  /\ clear_cache_posted_

(***************************************************************************)
(* StarboardPlayer: from kResuming to kPlaying.                            *)
(***************************************************************************)
\* The cache has no sample left to replay for either track.
CacheExhausted ==
  \A t \in Tracks : GetBuffer(decoder_buffer_cache_, t) = NoBuffer

\* The task runner runs an OnDecoderStatus of the current player and ticket.
AcceptedDecoderStatusRuns ==
  /\ NextTaskIs("OnDecoderStatus")
  /\ Head(task_queue)[2] = player_
  /\ Head(task_queue)[4] = ticket_
  /\ HandlerRan("OnDecoderStatus")

\* kResuming becomes kPlaying only in a Seek or in an accepted
\* OnDecoderStatus that finds the cache exhausted, and a Seek in kResuming
\* does make it kPlaying.
ResumingLeftForPlaying ==
  /\ (state_ = kResuming /\ state_' = kPlaying)
       => \/ HandlerRan("Seek")
          \/ AcceptedDecoderStatusRuns /\ CacheExhausted
  /\ (state_ = kResuming /\ HandlerRan("Seek")) => state_' = kPlaying

\* C24 as stated: kResuming is left for kPlaying only by a Seek or by an
\* accepted OnDecoderStatus that finds the cache exhausted; unless a Seek
\* runs, a step from kResuming with a sample left to replay ends in
\* kResuming; and kResuming with the cache exhausted leads to kPlaying.
C24_ResumingStaysUnlessSeek ==
  /\ [][ResumingLeftForPlaying]_vars
  /\ [][(state_ = kResuming /\ ~CacheExhausted /\ ~HandlerRan("Seek"))
         => state_' = kResuming]_vars
  /\ (state_ = kResuming /\ CacheExhausted) ~> (state_ = kPlaying)

\* C24, amended: kResuming is left for kPlaying only by a Seek or by an
\* accepted OnDecoderStatus that finds the cache exhausted; unless a Seek
\* or a Suspend runs, a step from kResuming with a sample left to replay
\* ends in kResuming; and kResuming with the cache exhausted leads to
\* kPlaying, or to kSuspended when a Suspend comes first.
C24_ResumingToPlaying ==
  /\ [][ResumingLeftForPlaying]_vars
  /\ [][(/\ state_ = kResuming
          /\ ~CacheExhausted
          /\ ~HandlerRan("Seek")
          /\ ~HandlerRan("Suspend"))
         => state_' = kResuming]_vars
  /\ (state_ = kResuming /\ CacheExhausted)
       ~> (state_ = kPlaying \/ state_ = kSuspended)

\* The second player has asked for data after the whole cache was replayed
\* to it, and the controller, which never sought, plays again.
C24_Witness ==
  /\ sp_calls # <<>>
  /\ Handler(sp_calls) = "OnDecoderStatus"
  /\ Called(Tail(sp_calls), "host_->OnNeedData")
  /\ state_ = kPlaying
  /\ player_ = 2
  /\ ticket_ = SB_PLAYER_INITIAL_TICKET
  /\ decoder_buffer_cache_.buffers["AUDIO"] # <<>>
  /\ CacheExhausted

(***************************************************************************)
(* StarboardPlayer: the errors of the native player.                       *)
(***************************************************************************)
\* The task runner runs an OnPlayerError of a living controller.
PlayerErrorRuns ==
  /\ callback_helper_player_
  /\ NextTaskIs("OnPlayerError")
  /\ HandlerRan("OnPlayerError")

\* The one call that hands an error to the host.
HostErrorCall == <<Call("host_->OnPlayerError", <<>>)>>

\* An OnPlayerError that was posted is run.
PostedPlayerErrorIsRun ==
  NextTaskIs("OnPlayerError")
    ~> (sp_calls # <<>> /\ Handler(sp_calls) = "OnPlayerError")

\* C31 as stated: every error that PlayerErrorCB posted is run, and the run
\* of an error that a player reported (one with a valid handle) hands it to
\* the host exactly once, whatever state_, player_ and ticket_ are.
C31_EveryErrorForwarded ==
  /\ PostedPlayerErrorIsRun
  /\ [][(PlayerErrorRuns /\ SbPlayerIsValid(Head(task_queue)[2]))
         => Tail(sp_calls') = HostErrorCall]_vars

\* C31, amended: every error that PlayerErrorCB posted is run; the run
\* hands it to the host exactly once when the error's player is player_,
\* whatever state_ and ticket_ are, and not at all when it is another
\* player; no field changes either way.
C31_ErrorForwardedForCurrentPlayer ==
  /\ PostedPlayerErrorIsRun
  /\ [][PlayerErrorRuns
         => /\ Tail(sp_calls') =
                 IF Head(task_queue)[2] = player_ THEN HostErrorCall ELSE <<>>
            /\ UNCHANGED spFields]_vars

\* The error of the second player, which is being replayed to after a Seek
\* raised the ticket, has been handed to the host.
C31_Witness ==
  /\ sp_calls # <<>>
  /\ Handler(sp_calls) = "OnPlayerError"
  /\ Tail(sp_calls) = HostErrorCall
  /\ state_ = kResuming
  /\ player_ = 2
  /\ ticket_ > SB_PLAYER_INITIAL_TICKET

(***************************************************************************)
(* StarboardPlayer: the native callbacks and the owning task sequence.     *)
(***************************************************************************)
\* A step of one of the static callbacks DecoderStatusCB, PlayerStatusCB,
\* PlayerErrorCB and DeallocateSampleCB, called by the native layer on its
\* own.
NativeCallbackStep == sp_calls' = <<>>

\* The step posts one task and changes no field of the controller.
OnlyPosted ==
  /\ UNCHANGED spFields
  /\ Len(task_queue') = Len(task_queue) + 1
  /\ SubSeq(task_queue', 1, Len(task_queue)) = task_queue

\* The task at the head of the queue runs in a living controller and
\* changes a field of it.
CallbackMutates ==
  /\ callback_helper_player_
  /\ CallbackRuns
  /\ spFields' # spFields

\* A Resume during whose SbPlayerCreate the native layer reports an error
\* for kSbPlayerInvalid.
ResumeWithCreationError ==
  /\ HandlerRan("Resume")
  /\ state_ = kSuspended
  /\ \E created \in BOOLEAN : Resume(created, TRUE)

\* C32 as stated: a native callback only posts a task and changes no field,
\* also the PlayerErrorCB that SbPlayerCreate calls before it returns; and
\* a posted callback changes a field only if it carries player_ and
\* ticket_.
C32_CallbacksOnlyPostedAndRevalidated ==
  [][/\ NativeCallbackStep => OnlyPosted
     /\ ResumeWithCreationError
          => /\ UNCHANGED player_creation_error_message_
             /\ Len(task_queue') = Len(task_queue) + 1
     /\ CallbackMutates
          => /\ Head(task_queue)[2] = player_
             /\ Head(task_queue)[4] = ticket_]_vars

\* C32, amended: DecoderStatusCB, PlayerStatusCB, DeallocateSampleCB and
\* PlayerErrorCB called outside SbPlayerCreate only post a task and change
\* no field; the PlayerErrorCB that SbPlayerCreate calls for
\* kSbPlayerInvalid before it returns stores its message at once and posts
\* nothing.  A posted OnDecoderStatus changes a field only if it carries
\* player_ and ticket_, a posted OnPlayerStatus only if it carries player_
\* and ticket_ or the initial ticket, a posted OnPlayerError changes none,
\* and a posted OnDeallocateSample, which carries neither, is applied as it
\* is.
C32_CallbacksPosted ==
  [][/\ NativeCallbackStep => OnlyPosted
     /\ ResumeWithCreationError
          => /\ player_creation_error_message_' = CreationMessage
             /\ task_queue' = task_queue
     /\ CallbackMutates
          => \/ /\ Head(task_queue)[1] = "OnDecoderStatus"
                /\ Head(task_queue)[2] = player_
                /\ Head(task_queue)[4] = ticket_
             \/ /\ Head(task_queue)[1] = "OnPlayerStatus"
                /\ Head(task_queue)[2] = player_
                /\ Head(task_queue)[4] \in {ticket_, SB_PLAYER_INITIAL_TICKET}
             \/ Head(task_queue)[1] = "OnDeallocateSample"]_vars

\* Resume has run after a construction that got a player, its own
\* SbPlayerCreate failed and reported an error: the message is stored and
\* no task is posted.
C32_Witness ==
  /\ sp_calls # <<>>
  /\ Handler(sp_calls) = "Resume"
  /\ sb_created = 1
  /\ state_ = kSuspended
  /\ player_creation_error_message_ = CreationMessage
  /\ task_queue = <<>>

(***************************************************************************)
(* StarboardPlayer: the public operations while suspended.                 *)
(***************************************************************************)
\* One of the public operations C33 names has run.
PublicOperationRan ==
  /\ sp_calls' # <<>>
  /\ Handler(sp_calls') \in
       {"WriteBuffer", "Seek", "PrepareForSeek", "SetVolume",
        "SetPlaybackRate", "SetBounds", "GetInfo"}

\* C33: while the controller is suspended (Suspend has destroyed the player
\* and player_ is kSbPlayerInvalid), WriteBuffer, Seek, PrepareForSeek,
\* SetVolume, SetPlaybackRate, SetBounds and GetInfo make no call to the
\* native player and add no reference to decoding_buffers_.
C33_NoNativeCallWhileSuspended ==
  [][(state_ = kSuspended /\ PublicOperationRan)
       => /\ player_ = kSbPlayerInvalid
          /\ Tail(sp_calls') = <<>>
          /\ UNCHANGED <<decoding_buffers_, sb_held>>]_vars

(***************************************************************************)
(* StarboardPlayer: lock_.                                                 *)
(***************************************************************************)
\* The calls to the native player that C34 names.
LockedNativeCalls == {"SbPlayerDestroy", "SbPlayerGetInfo2", "SbPlayerSetBounds"}

\* The step calls the native player.
NativeCallMade ==
  \E i \in 2 .. Len(sp_calls') : sp_calls'[i][1] \in LockedNativeCalls

\* C34: no step of Suspend, Resume, CreatePlayer, SetBounds or GetInfo calls
\* SbPlayerDestroy, SbPlayerGetInfo2 or SbPlayerSetBounds while its thread
\* holds lock_.
C34_NoNativeCallUnderLock ==
  [][NativeCallMade => lock_ = kLockFree]_vars

(***************************************************************************)
(* StarboardPlayer: after the destructor.                                  *)
(***************************************************************************)
\* The destructor has run: the CallbackHelper's player_ is reset.
Destroyed == ~callback_helper_player_

\* The fields of the controller but for the posted cache trimming.
FieldsButTrimming ==
  <<state_, player_, ticket_, seek_pending_, preroll_timestamp_,
    allow_resume_after_suspend_, decoder_buffer_cache_, decoding_buffers_,
    callback_helper_player_, spBounds, spCreation, spRates>>

\* C35: once the destructor has run, every step is the run of a task that
\* was posted before (OnDecoderStatus, OnPlayerStatus, OnPlayerError,
\* OnDeallocateSample, or the periodic ClearDecoderBufferCache); the run
\* changes no field, calls neither the host nor the native player, posts
\* nothing, and the ClearDecoderBufferCache task is not posted again.
C35_DestroyedIsFinal ==
  [][Destroyed
       => /\ Destroyed'
          /\ UNCHANGED FieldsButTrimming
          /\ UNCHANGED <<sb_created, sb_ticket, sb_held>>
          /\ sp_calls' # <<>>
          /\ Handler(sp_calls') \in
               {"OnDecoderStatus", "OnPlayerStatus", "OnPlayerError",
                "OnDeallocateSample", "ClearDecoderBufferCache"}
          /\ Tail(sp_calls') = <<>>
          /\ IF Handler(sp_calls') = "ClearDecoderBufferCache"
               THEN /\ clear_cache_posted_
                    /\ ~clear_cache_posted_'
                    /\ UNCHANGED task_queue
               ELSE /\ UNCHANGED clear_cache_posted_
                    /\ task_queue # <<>>
                    /\ task_queue' = Tail(task_queue)]_vars

\* A controller that had a player is destroyed with an OnDecoderStatus
\* posted; the ClearDecoderBufferCache task has run since and is posted no
\* more, and the OnDecoderStatus has run and done nothing.
C35_Witness ==
  /\ Destroyed
  /\ sb_created = 1
  /\ ~clear_cache_posted_
  /\ sp_calls = <<Ran("OnDecoderStatus")>>
  /\ task_queue = <<>>

(***************************************************************************)
(* StarboardPlayer: OnPlayerStatus.                                        *)
(***************************************************************************)
\* The task runner runs the OnPlayerStatus at the head of its queue in a
\* living controller, and the status is of the controller's player.
PlayerStatusOfPlayerRuns ==
  /\ callback_helper_player_
  /\ NextTaskIs("OnPlayerStatus")
  /\ HandlerRan("OnPlayerStatus")
  /\ Head(task_queue)[2] = player_

\* What an accepted kSbPlayerStateInitialized does: the ticket leaves the
\* initial value, the player is sought to preroll_timestamp_ with the
\* ticket, and volume_ and playback_rate_ are handed to it; the host hears
\* nothing.
InitializedApplied ==
  /\ ticket_' = IF ticket_ = SB_PLAYER_INITIAL_TICKET
                  THEN ticket_ + 1
                  ELSE ticket_
  /\ Tail(sp_calls') =
       <<Call("SbPlayerSeek2", <<preroll_timestamp_, ticket_'>>),
         Call("SbPlayerSetVolume", <<volume_>>),
         Call("SbPlayerSetPlaybackRate", <<playback_rate_>>)>>
  /\ UNCHANGED <<state_, player_, seek_pending_, preroll_timestamp_,
                 decoder_buffer_cache_, decoding_buffers_, spBounds,
                 spCreation, spRates>>

\* C36: an OnPlayerStatus of the controller's player whose ticket is ticket_
\* or the initial ticket is accepted, however far ticket_ has moved on.  An
\* accepted kSbPlayerStateInitialized increments ticket_ if it is the
\* initial one, calls SbPlayerSeek2 with preroll_timestamp_ and the ticket,
\* then SbPlayerSetVolume with volume_ and SbPlayerSetPlaybackRate with
\* playback_rate_, and does not call the host; any other accepted state is
\* handed to host_->OnPlayerStatus and changes no field.
C36_PlayerStatusAccepted ==
  [][(/\ PlayerStatusOfPlayerRuns
      /\ Head(task_queue)[4] \in {ticket_, SB_PLAYER_INITIAL_TICKET})
       => IF Head(task_queue)[3] = kSbPlayerStateInitialized
            THEN InitializedApplied
            ELSE /\ Tail(sp_calls') =
                      <<Call("host_->OnPlayerStatus", <<Head(task_queue)[3]>>)>>
                 /\ UNCHANGED spFields]_vars

\* An OnPlayerStatus with the initial ticket has run after two increments
\* of ticket_ and was accepted: the player is sought to a preroll timestamp
\* that a Suspend has stored, with the ticket as it is, and a volume and a
\* playback rate that the pipeline has set are handed to it.
C36_Witness ==
  /\ sp_calls =
       <<Ran("OnPlayerStatus"),
         Call("SbPlayerSeek2", <<1, SB_PLAYER_INITIAL_TICKET + 2>>),
         Call("SbPlayerSetVolume", <<0>>),
         Call("SbPlayerSetPlaybackRate", <<1>>)>>
  /\ ticket_ = SB_PLAYER_INITIAL_TICKET + 2
  /\ player_ = 2
  /\ state_ = kPlaying

(***************************************************************************)
(* StarboardPlayer: Seek while suspended.                                  *)
(***************************************************************************)
\* The samples of a track in the decoder buffer cache.
CachedSamples(cache, type) ==
  {cache.buffers[type][i] : i \in 1 .. Len(cache.buffers[type])}

\* The samples of a track written since Resume while kResuming.
ReplayedSamples(type) == {replayed[type][i] : i \in 1 .. Len(replayed[type])}

\* An OnPlayerStatus of the controller's player with
\* kSbPlayerStateInitialized is accepted.
InitializedAccepted ==
  /\ PlayerStatusOfPlayerRuns
  /\ Head(task_queue)[3] = kSbPlayerStateInitialized
  /\ Head(task_queue)[4] \in {ticket_, SB_PLAYER_INITIAL_TICKET}

\* C37: Seek(t) while suspended calls nothing, leaves ticket_ as it is,
\* empties the decoder buffer cache and stores t in preroll_timestamp_.
\* Nothing but such a Seek changes preroll_timestamp_ while the controller
\* is suspended, Resume included, and nothing changes it as long as player_
\* is the same player; the player's accepted kSbPlayerStateInitialized then
\* calls SbPlayerSeek2 with preroll_timestamp_.  While kResuming, the
\* samples written since Resume are all in the cache, which the Seek has
\* emptied.
C37_SeekWhileSuspended ==
  [][/\ \A time \in MediaTimes :
          (state_ = kSuspended /\ HandlerRan("Seek") /\ Seek(time))
            => /\ Tail(sp_calls') = <<>>
               /\ UNCHANGED <<ticket_, sb_ticket, state_, player_>>
               /\ preroll_timestamp_' = time
               /\ \A type \in Tracks :
                    CachedSamples(decoder_buffer_cache_', type) = {}
     /\ (state_ = kSuspended /\ ~HandlerRan("Seek"))
          => UNCHANGED preroll_timestamp_
     /\ (SbPlayerIsValid(player_) /\ player_' = player_)
          => UNCHANGED preroll_timestamp_
     /\ InitializedAccepted
          => Entries(sp_calls', "SbPlayerSeek2") =
               <<Call("SbPlayerSeek2", <<preroll_timestamp_, ticket_'>>)>>
     /\ state_' = kResuming
          => \A type \in Tracks :
               ReplayedSamples(type)' \subseteq
                 CachedSamples(decoder_buffer_cache_', type)]_vars

\* Suspend found the player at media time 0, a Seek(2) followed while
\* suspended, Resume got a second player, and this player's
\* kSbPlayerStateInitialized was accepted: it is sought to 2.
C37_Witness ==
  /\ sp_calls # <<>>
  /\ Handler(sp_calls) = "OnPlayerStatus"
  /\ Entries(sp_calls, "SbPlayerSeek2") =
       <<Call("SbPlayerSeek2", <<2, SB_PLAYER_INITIAL_TICKET + 1>>)>>
  /\ player_ = 2
  /\ state_ = kResuming
  /\ preroll_timestamp_ = 2

(***************************************************************************)
(* StarboardPlayer: SetBounds next to Suspend and Resume.                  *)
(***************************************************************************)
\* The step hands bounds to the native player.
SetBoundsCalled ==
  \E i \in 2 .. Len(sp_calls') : sp_calls'[i][1] = "SbPlayerSetBounds"

\* C38: with SetBounds on its own thread next to Suspend and Resume on the
\* task runner, whenever lock_ is free a controller that is not suspended
\* has a valid player_, and SbPlayerSetBounds is only called with a valid
\* player_ that is not destroyed.
C38_BoundsNeverReachInvalidPlayer ==
  /\ [](lock_ = kLockFree /\ state_ # kSuspended => SbPlayerIsValid(player_))
  /\ [][SetBoundsCalled
          => /\ SbPlayerIsValid(player_)
             /\ player_ = sb_created]_vars

(***************************************************************************)
(* StarboardPlayer: the samples in flight.                                 *)
(***************************************************************************)
\* The task runner runs the OnDeallocateSample at the head of its queue in a
\* living controller.
DeallocateSampleRuns ==
  /\ callback_helper_player_
  /\ NextTaskIs("OnDeallocateSample")
  /\ HandlerRan("OnDeallocateSample")

\* The dispatches of an address that are not given back yet: those a player
\* holds, living or destroyed, and those whose deallocation is posted.
Outstanding(a) ==
  CopiesOf(a, sb_held) + PendingDeallocations(task_queue, a)

Init == InitSB /\ InitSP
InitPL == InitSB /\ InitLifecycle
InitTR == InitSB /\ InitTrimming
InitRP == InitSB /\ InitReplay
InitCB == InitSB /\ InitCallbacks
InitOP == InitSB /\ InitOperations
InitLK == InitSB /\ InitLocking
InitST == InitSB /\ InitStatus
InitSK == InitSB /\ InitSeeking
InitDA == InitSB /\ InitDeallocation

\* The same, the controller's player created and its replay cache enabled.
InitCreated == Init /\ allow_resume_after_suspend_ = TRUE /\ sb_created = 1

\* The track buffer alone, next to a controller that is left as constructed.
SpecSB == InitCreated /\ [][NextSB]_vars

\* The controller alone, next to a track buffer that is left as constructed.
SpecSP == Init /\ [][NextSP]_vars

\* The controller's player life cycle, bounds and native errors, next to a
\* track buffer that is left as constructed.
SpecPL == InitPL /\ [][NextPL]_vars /\ FairnessPL

\* The controller's decoder buffer cache and its trimming, next to a track
\* buffer that is left as constructed.
SpecTR == InitTR /\ [][NextTR]_vars

\* The controller's native callbacks and their handlers, next to a track
\* buffer that is left as constructed.
SpecCB == InitCB /\ [][NextCB]_vars

\* The controller under its public operations, with and without the decoder
\* buffer cache, next to a track buffer that is left alone.
SpecOP == InitOP /\ [][NextOP]_vars

\* Suspend and Resume on the task runner and SetBounds and GetInfo on
\* another thread, interleaved as lock_ allows, next to a track buffer that
\* is left alone.
SpecLK == InitLK /\ [][NextLK]_vars

\* The controller under seeks, suspension and the status callbacks of its
\* players, next to a track buffer that is left alone.
SpecST == InitST /\ [][NextST]_vars

\* The controller under seeks while suspended and the replay after Resume,
\* next to a track buffer that is left alone.
SpecSK == InitSK /\ [][NextSK]_vars

\* The controller's table of samples in flight under the scheduling of the
\* task runner and the native layer, next to a track buffer that is left
\* alone.
SpecDA == InitDA /\ [][NextDA]_vars /\ FairnessDA

\* The controller's replay of the cache after Resume, under the scheduling
\* of the task runner and the native player, next to a track buffer that is
\* left as constructed.
SpecRP == InitRP /\ [][NextRP]_vars /\ FairnessRP

=============================================================================
